---- MODULE Spec2Model ----
(***************************************************************************)
(* Declarative entity query and live-subscription engine of the editor:    *)
(* EntityQueryBuilder and the useEntityQuery hook (hooks.ts), the          *)
(* EngineAPI wrapper (EngineAPI.ts) and, behind the wasm boundary, the     *)
(* query executor and the subscription registry of the engine.             *)
(***************************************************************************)
EXTENDS Integers, Sequences, FiniteSets, TLC

(***************************************************************************)
(* Bounds of the model.                                                    *)
(***************************************************************************)
MaxEntities == 2
MaxPage == 3
MaxSubs == 2
MaxPending == 1
MaxCalls == 3
MaxInits == 2
Spread == 2
MaxScale == 2

(***************************************************************************)
(* JavaScript values that cross the engine boundary.  A value is a tagged  *)
(* record; strings are represented by their rank in lexicographic order.   *)
(***************************************************************************)
Undefined == [t |-> "undefined", v |-> 0]
Null == [t |-> "null", v |-> 0]
Num(n) == [t |-> "num", v |-> n]
Str(n) == [t |-> "str", v |-> n]
Bool(b) == [t |-> "bool", v |-> IF b THEN 1 ELSE 0]

CompareOp == {"==", "!=", "<", "<=", ">", ">="}
SortDirection == {"asc", "desc"}

FilterExpr(field, op, value) == [field |-> field, op |-> op, value |-> value]

\* order_by: OrderBy | null is a sequence of at most one OrderBy, <<>> for null.
OrderBy(field, direction) == <<[field |-> field, direction |-> direction]>>

(***************************************************************************)
(* EntityQueryBuilder (query.ts).  A builder is its private descriptor;    *)
(* the constructor leaves the optional offset undefined.                   *)
(***************************************************************************)
EntityQueryBuilder ==
    [select |-> <<>>,
     with_components |-> <<>>,
     without_components |-> <<>>,
     filters |-> <<>>,
     order_by |-> <<>>,
     limit |-> Null,
     offset |-> Undefined]

select_Appends(b, fields) == [b EXCEPT !.select = b.select \o fields]

select(b, fields) == [b EXCEPT !.select = fields]

with_Replaces(b, components) == [b EXCEPT !.with_components = components]

with(b, components) ==
    [b EXCEPT !.with_components = b.with_components \o components]

without(b, components) ==
    [b EXCEPT !.without_components = b.without_components \o components]

where_Prepends(b, field, op, value) ==
    [b EXCEPT !.filters = <<FilterExpr(field, op, value)>> \o b.filters]

where(b, field, op, value) ==
    [b EXCEPT !.filters = Append(b.filters, FilterExpr(field, op, value))]

orderBy_KeepsFirst(b, field, direction) ==
    IF b.order_by # <<>> THEN b
    ELSE [b EXCEPT !.order_by =
             OrderBy(field, IF direction = "undefined" THEN "asc" ELSE direction)]

\* direction: SortDirection = 'asc': an omitted argument ("undefined") takes
\* the default.
orderBy(b, field, direction) ==
    [b EXCEPT !.order_by =
        OrderBy(field, IF direction = "undefined" THEN "asc" ELSE direction)]

limit_ResetsOffset(b, n) == [b EXCEPT !.limit = Num(n), !.offset = Num(0)]

limit(b, n) == [b EXCEPT !.limit = Num(n)]

offset_SetsLimit(b, n) == [b EXCEPT !.limit = Num(n)]

offset(b, n) == [b EXCEPT !.offset = Num(n)]

page_OneBased(b, pageIndex, perPage) ==
    [b EXCEPT !.offset = Num((pageIndex - 1) * perPage), !.limit = Num(perPage)]

page(b, pageIndex, perPage) ==
    [b EXCEPT !.offset = Num(pageIndex * perPage), !.limit = Num(perPage)]

\* JSON.stringify(this.descriptor): a key whose value is undefined is left
\* out of the text, null and numbers are written as they are.
Stringify(d) ==
    LET keys == IF d.offset = Undefined THEN DOMAIN d \ {"offset"} ELSE DOMAIN d
    IN  [k \in keys |-> d[k]]

toJSON(b) == Stringify(b)

\* build(): { ...this.descriptor }, a new object with the same own
\* properties; a property that holds an array holds the same array.
build(descriptor) == [k \in DOMAIN descriptor |-> descriptor[k]]

(***************************************************************************)
(* Objects of the builder.  The arrays of a descriptor are objects of a    *)
(* heap, a sequence indexed by address; a descriptor object holds the      *)
(* addresses of its four arrays and the values of order_by, limit and      *)
(* offset.  Deref reads a descriptor object as the value the operators     *)
(* above work on.                                                          *)
(***************************************************************************)
Deref(heap, d) ==
    [select |-> heap[d.select],
     with_components |-> heap[d.with_components],
     without_components |-> heap[d.without_components],
     filters |-> heap[d.filters],
     order_by |-> d.order_by,
     limit |-> d.limit,
     offset |-> d.offset]

\* The constructor: the four array literals are four new arrays.
Construct(v) ==
    [heap |-> <<v.select, v.with_components, v.without_components, v.filters>>,
     descriptor |-> [select |-> 1, with_components |-> 2, without_components |-> 3,
                     filters |-> 4, order_by |-> v.order_by, limit |-> v.limit,
                     offset |-> v.offset]]

\* A method brought this.descriptor to the value v.  select assigns its
\* rest-parameter array, a new array, to the select property; push changes
\* the array a property already holds; order_by, limit and offset are
\* assigned values.
Store(heap, d, v, assignsSelect) ==
    LET pushed == [a \in DOMAIN heap |->
                      IF a = d.with_components THEN v.with_components
                      ELSE IF a = d.without_components THEN v.without_components
                      ELSE IF a = d.filters THEN v.filters
                      ELSE IF a = d.select /\ ~assignsSelect THEN v.select
                      ELSE heap[a]]
    IN  IF assignsSelect
        THEN [heap |-> Append(pushed, v.select),
              descriptor |-> [d EXCEPT !.select = Len(heap) + 1, !.order_by = v.order_by,
                                       !.limit = v.limit, !.offset = v.offset]]
        ELSE [heap |-> pushed,
              descriptor |-> [d EXCEPT !.order_by = v.order_by, !.limit = v.limit,
                                       !.offset = v.offset]]

(***************************************************************************)
(* The entity-component store behind the wasm boundary: entities in        *)
(* creation order 1..MaxEntities, each alive or not, with a set of         *)
(* components and a partial mapping field name -> value.                   *)
(***************************************************************************)
Entities == 1..MaxEntities
Components == {"Transform", "Enemy"}
Fields == {"x", "name"}

Entity(alive, comps, fields) == [alive |-> alive, comps |-> comps, fields |-> fields]
NoFields == [f \in {} |-> Null]

\* The kinds of entity the model's worlds are made of.
Archetypes ==
    { Entity(FALSE, {}, NoFields),
      Entity(TRUE, {}, NoFields),
      Entity(TRUE, {"Transform"}, [f \in {"x"} |-> Num(1)]),
      Entity(TRUE, {"Transform"}, [f \in {"x"} |-> Num(2)]),
      Entity(TRUE, {"Transform", "Enemy"}, [f \in {"x", "name"} |-> IF f = "x" THEN Num(1) ELSE Str(1)]) }

Worlds == [Entities -> Archetypes]

(***************************************************************************)
(* Filter evaluator (spec 4.2): total, absent field passes only == null,   *)
(* a type mismatch evaluates false.                                        *)
(***************************************************************************)
Compare(op, a, b) ==
    CASE op = "<"  -> a < b
      [] op = "<=" -> a <= b
      [] op = ">"  -> a > b
      [] op = ">=" -> a >= b

EvalFilter_AbsentAsNull(present, fv, f) ==
    IF ~present
    THEN IF f.op = "==" THEN f.value = Null ELSE f.op = "!=" /\ f.value # Null
    ELSE IF fv.t # f.value.t THEN FALSE
    ELSE IF f.op = "==" THEN fv.v = f.value.v
    ELSE IF f.op = "!=" THEN fv.v # f.value.v
    ELSE IF fv.t \in {"num", "str"} THEN Compare(f.op, fv.v, f.value.v)
    ELSE FALSE

EvalFilter(present, fv, f) ==
    IF ~present THEN f.op = "==" /\ f.value = Null
    ELSE IF fv.t # f.value.t THEN FALSE
    ELSE IF f.op = "==" THEN fv.v = f.value.v
    ELSE IF f.op = "!=" THEN fv.v # f.value.v
    ELSE IF fv.t \in {"num", "str"} THEN Compare(f.op, fv.v, f.value.v)
    ELSE FALSE

PassesFilter(ent, f) ==
    IF f.field \in DOMAIN ent.fields
    THEN EvalFilter(TRUE, ent.fields[f.field], f)
    ELSE EvalFilter(FALSE, Null, f)

(***************************************************************************)
(* Query executor (spec 4.3).                                              *)
(***************************************************************************)
Range(s) == {s[i] : i \in DOMAIN s}

\* The engine's reading of the wire descriptor: with/without become sets,
\* a missing or null offset is 0, a null limit is "no limit".
ParseDescriptor(json) ==
    [select |-> json.select,
     with |-> Range(json.with_components),
     without |-> Range(json.without_components),
     filters |-> json.filters,
     order_by |-> json.order_by,
     limit |-> json.limit,
     offset |-> IF "offset" \in DOMAIN json /\ json.offset # Null
                THEN json.offset ELSE Num(0)]

\* ValidationError: negative limit or offset.  ReferenceError: a field or
\* component name unknown to the schema.  "none" when the descriptor is valid.
Validate(d) ==
    IF (d.limit # Null /\ d.limit.v < 0) \/ d.offset.v < 0
    THEN "ValidationError"
    ELSE IF \/ ~(Range(d.select) \subseteq Fields)
            \/ \E i \in DOMAIN d.filters : d.filters[i].field \notin Fields
            \/ \E i \in DOMAIN d.order_by : d.order_by[i].field \notin Fields
            \/ ~((d.with \cup d.without) \subseteq Components)
    THEN "ReferenceError"
    ELSE "none"

IsCandidate_IgnoresWithout(w, d, e) ==
    /\ w[e].alive
    /\ d.with \subseteq w[e].comps

\* Step 1: alive entities with every required and no forbidden component.
IsCandidate(w, d, e) ==
    /\ w[e].alive
    /\ d.with \subseteq w[e].comps
    /\ d.without \cap w[e].comps = {}

\* Step 2: filters are conjunctive.
Survives(w, d, e) ==
    /\ IsCandidate(w, d, e)
    /\ \A i \in DOMAIN d.filters : PassesFilter(w[e], d.filters[i])

\* The surviving entities in creation order.
RECURSIVE Surviving(_, _, _)
Surviving(w, d, e) ==
    IF e > MaxEntities THEN <<>>
    ELSE (IF Survives(w, d, e) THEN <<e>> ELSE <<>>) \o Surviving(w, d, e + 1)

\* Step 4: a goes strictly before b under the ordering; entities missing
\* the sort field go after those that have it, whatever the direction.
SortsBefore(w, ob, a, b) ==
    LET ha == ob.field \in DOMAIN w[a].fields
        hb == ob.field \in DOMAIN w[b].fields
    IN  IF ~ha THEN FALSE
        ELSE IF ~hb THEN TRUE
        ELSE LET va == w[a].fields[ob.field]
                 vb == w[b].fields[ob.field]
             IN  /\ va.t = vb.t
                 /\ va.t \in {"num", "str"}
                 /\ IF ob.direction = "asc" THEN va.v < vb.v ELSE va.v > vb.v

\* Stable insertion of e into the sorted sequence s.
RECURSIVE Insert(_, _, _, _)
Insert(w, ob, s, e) ==
    IF s = <<>> THEN <<e>>
    ELSE IF SortsBefore(w, ob, e, Head(s)) THEN <<e>> \o s
    ELSE <<Head(s)>> \o Insert(w, ob, Tail(s), e)

RECURSIVE StableSort(_, _, _)
StableSort(w, ob, s) ==
    IF s = <<>> THEN <<>>
    ELSE Insert(w, ob, StableSort(w, ob, SubSeq(s, 1, Len(s) - 1)), s[Len(s)])

Ordered(w, d, s) ==
    IF d.order_by = <<>> THEN s ELSE StableSort(w, d.order_by[1], s)

\* Step 5: drop offset leading rows, then take at most limit.
Paginate(d, s) ==
    LET dropped == SubSeq(s, d.offset.v + 1, Len(s))
    IN  IF d.limit = Null \/ d.limit.v >= Len(dropped) THEN dropped
        ELSE SubSeq(dropped, 1, d.limit.v)

\* Step 6: only the selected fields the entity actually has.
Project(w, d, e) ==
    [id |-> e,
     fields |-> [f \in Range(d.select) \cap DOMAIN w[e].fields |-> w[e].fields[f]]]

QueryResult(err, rows, total) == [error |-> err, rows |-> rows, total_count |-> total]

Execute(w, json) ==
    LET d == ParseDescriptor(json)
        err == Validate(d)
        surv == Surviving(w, d, 1)
        ids == Paginate(d, Ordered(w, d, surv))
    IN  IF err # "none" THEN QueryResult(err, <<>>, 0)
        ELSE QueryResult("none", [i \in DOMAIN ids |-> Project(w, d, ids[i])], Len(surv))

(***************************************************************************)
(* Subscription registry (spec 4.4) behind the wasm boundary.  A registry  *)
(* is [subs, nextId]: subs maps each Active id to its descriptor, cached   *)
(* Result and callback owner; ids below nextId that are not in subs are    *)
(* Cancelled.                                                              *)
(***************************************************************************)
NewRegistry == [subs |-> [i \in {} |-> 0], nextId |-> 1]

Active(reg) == DOMAIN reg.subs

Subscription(json, cache, owner) == [desc |-> json, cache |-> cache, owner |-> owner]

subscribe_query_ReusesId(reg, w, json, owner) ==
    LET initial == Execute(w, json)
        id == CHOOSE i \in 1..reg.nextId : i \notin Active(reg) /\
                  \A j \in 1..(i - 1) : j \in Active(reg)
    IN  IF initial.error # "none"
        THEN [error |-> initial.error, id |-> 0, calls |-> <<>>, reg |-> reg]
        ELSE [error |-> "none", id |-> id, calls |-> <<initial>>,
              reg |-> [subs |-> (id :> Subscription(json, initial, owner)) @@ reg.subs,
                       nextId |-> IF id = reg.nextId THEN id + 1 ELSE reg.nextId]]

\* subscribe: validate, execute once, cache the initial Result, go Active
\* and return the next id of the counter; an invalid descriptor registers
\* nothing.  calls is the sequence of Results handed to the callback
\* before the call returns.
subscribe_query(reg, w, json, owner) ==
    LET initial == Execute(w, json)
        id == reg.nextId
    IN  IF initial.error # "none"
        THEN [error |-> initial.error, id |-> 0, calls |-> <<>>, reg |-> reg]
        ELSE [error |-> "none", id |-> id, calls |-> <<initial>>,
              reg |-> [subs |-> (id :> Subscription(json, initial, owner)) @@ reg.subs,
                       nextId |-> id + 1]]

\* unsubscribe: true and Cancelled when id is Active, false otherwise.
unsubscribe_query(reg, id) ==
    IF id \in Active(reg)
    THEN [ret |-> TRUE,
          reg |-> [reg EXCEPT !.subs = [i \in Active(reg) \ {id} |-> reg.subs[i]]]]
    ELSE [ret |-> FALSE, reg |-> reg]

SameResult_CountOnly(a, b) == a.total_count = b.total_count

\* Structural comparison of two Results: total_count, the row id sequence
\* and the field mapping of every row.
SameResult(a, b) ==
    /\ a.total_count = b.total_count
    /\ Len(a.rows) = Len(b.rows)
    /\ \A i \in DOMAIN a.rows :
          /\ a.rows[i].id = b.rows[i].id
          /\ a.rows[i].fields = b.rows[i].fields

\* Re-evaluation of one entry of the sweep: the entry is notified with the
\* fresh Result when the evaluation succeeds and the Result differs from
\* the cached one; an ExecutionError (fail) keeps the cache.
Reevaluate(w, entry, fail) ==
    LET fresh == Execute(w, entry.desc)
    IN  IF fail \/ fresh.error # "none" \/ SameResult(fresh, entry.cache)
        THEN [notify |-> FALSE, result |-> entry.cache]
        ELSE [notify |-> TRUE, result |-> fresh]

\* The snapshot a sweep works through: the subscriptions Active when the
\* tick starts, in id order.
RECURSIVE Snapshot(_, _)
Snapshot(reg, i) ==
    IF i >= reg.nextId THEN <<>>
    ELSE (IF i \in Active(reg)
          THEN <<[id |-> i, desc |-> reg.subs[i].desc, cache |-> reg.subs[i].cache,
                  owner |-> reg.subs[i].owner]>>
          ELSE <<>>) \o Snapshot(reg, i + 1)

\* A world mutation: set the field x of an entity (set_position).  The
\* model's host and callbacks move the first entity.
Mutations == [e : {1}, x : 1..2]

ApplyMutation(w, m) ==
    IF w[m.e].alive /\ "x" \in DOMAIN w[m.e].fields
    THEN [w EXCEPT ![m.e].fields["x"] = Num(m.x)]
    ELSE w

RECURSIVE ApplyAll(_, _)
ApplyAll(w, ms) ==
    IF ms = <<>> THEN w ELSE ApplyAll(ApplyMutation(w, Head(ms)), Tail(ms))

RequestMutation_Immediate(w, queue, inSweep, m) ==
    [world |-> ApplyMutation(w, m), pending |-> queue]

\* A mutation requested while a sweep is in progress is queued for the next
\* tick; outside a sweep the store applies it at once.
RequestMutation(w, queue, inSweep, m) ==
    IF inSweep THEN [world |-> w, pending |-> Append(queue, m)]
    ELSE [world |-> ApplyMutation(w, m), pending |-> queue]

(***************************************************************************)
(* EngineAPI (EngineAPI.ts): every call goes through getEngine(), which    *)
(* throws unless the wrapper is initialized and holds an engine.           *)
(***************************************************************************)
NotInitialized == "Engine not initialized. Call initialize() first."

assertInitialized_Never(init) == "none"

assertInitialized(init) == IF init THEN "none" ELSE NotInitialized

executeQuery(init, w, query) ==
    IF assertInitialized(init) # "none"
    THEN QueryResult(NotInitialized, <<>>, 0)
    ELSE Execute(w, Stringify(query))

subscribeQuery(init, reg, w, query, owner) ==
    IF assertInitialized(init) # "none"
    THEN [error |-> NotInitialized, id |-> 0, calls |-> <<>>, reg |-> reg]
    ELSE subscribe_query(reg, w, Stringify(query), owner)

unsubscribeQuery_DropsResult(init, reg, subscriptionId) ==
    IF assertInitialized(init) # "none"
    THEN [error |-> NotInitialized, ret |-> FALSE, reg |-> reg]
    ELSE [error |-> "none", ret |-> FALSE, reg |-> unsubscribe_query(reg, subscriptionId).reg]

unsubscribeQuery(init, reg, subscriptionId) ==
    IF assertInitialized(init) # "none"
    THEN [error |-> NotInitialized, ret |-> FALSE, reg |-> reg]
    ELSE [error |-> "none"] @@ unsubscribe_query(reg, subscriptionId)

(***************************************************************************)
(* EntityId (types.ts).  The bitwise operators of JavaScript work on the   *)
(* 32-bit two's complement value of their operands and yield one.          *)
(***************************************************************************)
Int32Bits == 32
IndexBits == 20
IndexMask == 1048575

\* x << n: the low 32 - n bits of x move up, the topmost of them is the sign.
ShiftLeft(x, n) ==
    LET low == x % (2 ^ (Int32Bits - n))
    IN  IF low >= 2 ^ (Int32Bits - 1 - n)
        THEN (low - 2 ^ (Int32Bits - n)) * (2 ^ n)
        ELSE low * (2 ^ n)

\* x >> n: the sign-propagating shift.
ShiftRight(x, n) == x \div (2 ^ n)

RECURSIVE BitAnd(_, _)
BitAnd(a, b) ==
    IF a = 0 \/ b = 0 THEN 0
    ELSE IF a = -1 THEN b
    ELSE IF b = -1 THEN a
    ELSE (a % 2) * (b % 2) + 2 * BitAnd(a \div 2, b \div 2)

RECURSIVE BitOr(_, _)
BitOr(a, b) ==
    IF a = 0 THEN b
    ELSE IF b = 0 THEN a
    ELSE IF a = -1 \/ b = -1 THEN -1
    ELSE (IF a % 2 = 1 \/ b % 2 = 1 THEN 1 ELSE 0) + 2 * BitOr(a \div 2, b \div 2)

EntityId_index(id) == BitAnd(id, IndexMask)

EntityId_generation(id) == ShiftRight(id, IndexBits)

EntityId_pack(index, generation) == BitOr(ShiftLeft(generation, IndexBits), index)

(***************************************************************************)
(* useViewportControls (useViewportControls.ts): the refs of the hook and  *)
(* its mouse handlers.  A position is <<clientX, clientY>>.                *)
(***************************************************************************)
DRAG_THRESHOLD == 3

NewControls ==
    [isDragging |-> FALSE, hasDragged |-> FALSE, lastPos |-> <<0, 0>>,
     mouseDownPos |-> <<0, 0>>, button |-> 0]

\* Math.sqrt(dx^2 + dy^2) > DRAG_THRESHOLD, on whole pixels.
DistFromStart(pos, start) ==
    (pos[1] - start[1]) * (pos[1] - start[1]) + (pos[2] - start[2]) * (pos[2] - start[2])
        > DRAG_THRESHOLD * DRAG_THRESHOLD

handleMouseDown(refs, b, pos) ==
    IF b \in {0, 1, 2}
    THEN [refs EXCEPT !.isDragging = TRUE, !.hasDragged = FALSE, !.button = b,
                      !.lastPos = pos, !.mouseDownPos = pos]
    ELSE refs

\* camera is the camera method called, if any.
handleMouseMove(refs, pos, shiftKey) ==
    IF ~refs.isDragging
    THEN [refs |-> refs, camera |-> "none"]
    ELSE [refs |-> [refs EXCEPT !.lastPos = pos,
                                !.hasDragged = @ \/ DistFromStart(pos, refs.mouseDownPos)],
          camera |-> IF refs.button = 0 THEN "none"
                     ELSE IF refs.button = 1 \/ shiftKey THEN "panCamera"
                     ELSE "orbitCamera"]

\* pick is the store action called, if any; hit tells whether
\* pickEntityAtCanvas found an entity.
handleMouseUp(refs, hit) ==
    [refs |-> [refs EXCEPT !.isDragging = FALSE, !.hasDragged = FALSE],
     pick |-> IF refs.button = 0 /\ ~refs.hasDragged
              THEN IF hit THEN "selectEntity" ELSE "deselectAll"
              ELSE "none"]

handleMouseLeave(refs) == [refs EXCEPT !.isDragging = FALSE, !.hasDragged = FALSE]

(***************************************************************************)
(* The EngineAPI object: engine (<<>> for null, <<e>> for the engine with  *)
(* handle e), the entities Map (id -> name) and the initialized flag.      *)
(* The engines live on the wasm side, a sequence indexed by handle; of an  *)
(* engine the model keeps how often free() was called on it, the ids of    *)
(* its live entities and the next id it hands out.                         *)
(***************************************************************************)
NewEngineAPI == [engine |-> <<>>, entities |-> [i \in {} |-> ""], initialized |-> FALSE]

isInitialized(api) == api.initialized /\ api.engine # <<>>

\* getEngine(): assertInitialized(), then this.engine!.
getEngine(api) ==
    [error |-> assertInitialized(api.initialized /\ api.engine # <<>>),
     engine |-> api.engine]

\* What a call through getEngine() meets: the error assertInitialized
\* throws, a TypeError on a null engine, or the engine to call.
Target(api) ==
    LET g == getEngine(api)
    IN  IF g.error # "none" THEN [error |-> g.error, e |-> 0]
        ELSE IF g.engine = <<>> THEN [error |-> "TypeError", e |-> 0]
        ELSE [error |-> "none", e |-> g.engine[1]]

NewWasmEngine == [freed |-> 0, alive |-> {}, next |-> 1]

\* Entity ids are never ambiguous between a live entity and a deleted one:
\* every create_entity hands out a new id.
create_entity(engine) ==
    [ret |-> engine.next,
     engine |-> [engine EXCEPT !.alive = @ \cup {engine.next}, !.next = @ + 1]]

delete_entity(engine, id) ==
    [ret |-> id \in engine.alive, engine |-> [engine EXCEPT !.alive = @ \ {id}]]

\* The outcome of a wrapper method: the error it threw ("none" when it
\* returned), what it returned, the wrapper and the engines after it, and
\* whether it called the engine.
Outcome(error, ret, api, wasm, called) ==
    [error |-> error, ret |-> ret, api |-> api, wasm |-> wasm, called |-> called]

createEntity(api, wasm, name) ==
    LET t == Target(api)
    IN  IF t.error # "none" THEN Outcome(t.error, 0, api, wasm, FALSE)
        ELSE LET r == create_entity(wasm[t.e])
             IN  Outcome("none", r.ret,
                         [api EXCEPT !.entities = (r.ret :> name) @@ @],
                         [wasm EXCEPT ![t.e] = r.engine], TRUE)

deleteEntity(api, wasm, id) ==
    LET t == Target(api)
    IN  IF t.error # "none" THEN Outcome(t.error, FALSE, api, wasm, FALSE)
        ELSE LET r == delete_entity(wasm[t.e], id)
             IN  Outcome("none", r.ret,
                         IF r.ret
                         THEN [api EXCEPT !.entities =
                                  [i \in DOMAIN @ \ {id} |-> @[i]]]
                         ELSE api,
                         [wasm EXCEPT ![t.e] = r.engine], TRUE)

\* set_name on an id that is not alive either returns without effect or
\* throws, as the engine chooses (throws tells which).
setName(api, wasm, id, name, throws) ==
    LET t == Target(api)
    IN  IF t.error # "none" THEN Outcome(t.error, FALSE, api, wasm, FALSE)
        ELSE IF id \notin wasm[t.e].alive /\ throws
        THEN Outcome("EngineError", FALSE, api, wasm, TRUE)
        ELSE Outcome("none", FALSE, [api EXCEPT !.entities = (id :> name) @@ @],
                     wasm, TRUE)

getAllEntityIds(api) == DOMAIN api.entities

\* The other methods that delegate: each starts with this.getEngine().
DelegatingMethods ==
    {"setPosition", "setRotation", "setScale", "getPosition", "getRotation", "getScale",
     "getName", "isAlive", "getTransform", "getEntityData", "getEntityCount", "tick",
     "resize", "getWidth", "getHeight", "executeQuery", "subscribeQuery",
     "unsubscribeQuery", "orbitCamera", "panCamera", "zoomCamera", "setCameraTarget",
     "getCameraPosition", "getCameraTarget", "focusOnEntity", "pickEntity",
     "screenToWorld", "pickEntityAtCanvas", "setGizmoMode", "setGizmoVisible",
     "setGizmoPosition", "setGizmoRotation", "setGizmoHoveredAxis",
     "setGizmoActiveAxis", "isGizmoVisible", "syncGizmoToEntity", "hideGizmo",
     "gizmoHitTest", "startGizmoDrag", "updateGizmoDrag", "updateGizmoDragRotate",
     "endGizmoDrag", "gizmoHitTestAtCanvas", "startGizmoDragAtCanvas",
     "updateGizmoDragAtCanvas", "updateGizmoDragRotateAtCanvas"}

delegate(api, wasm, method) ==
    LET t == Target(api)
    IN  Outcome(t.error, FALSE, api, wasm, t.error = "none")

\* free() releases the engine and all it holds.
free(engine) == [NewWasmEngine EXCEPT !.freed = engine.freed + 1]

dispose_KeepsEngine(api, wasm) ==
    IF api.engine # <<>>
    THEN Outcome("none", FALSE, [NewEngineAPI EXCEPT !.engine = api.engine],
                 [wasm EXCEPT ![api.engine[1]] = free(@)], TRUE)
    ELSE Outcome("none", FALSE, api, wasm, FALSE)

\* dispose(): free the engine held, if any, and reset the wrapper.
dispose(api, wasm) ==
    IF api.engine # <<>>
    THEN Outcome("none", FALSE, NewEngineAPI,
                 [wasm EXCEPT ![api.engine[1]] = free(@)], TRUE)
    ELSE Outcome("none", FALSE, api, wasm, FALSE)

(***************************************************************************)
(* useEntityQuery (hooks.ts).  A hook instance is a record of its React    *)
(* state (data, loading, error), its subscriptionRef (<<>> for null) and,  *)
(* for the model, the number of onError calls of its last effect run.      *)
(***************************************************************************)
NewHook(manual) ==
    [phase |-> "unmounted", manual |-> manual, query |-> EntityQueryBuilder,
     subscriptionRef |-> <<>>,
     data |-> <<>>, loading |-> TRUE, error |-> "none", onError |-> 0]

RECURSIVE SubscriptionCallback_KeepsLoading(_, _)
SubscriptionCallback_KeepsLoading(h, calls) ==
    IF calls = <<>> THEN h
    ELSE SubscriptionCallback_KeepsLoading(
             [h EXCEPT !.data = <<Head(calls)>>, !.error = "none"], Tail(calls))

\* The callback handed to subscribeQuery: setData, setLoading(false),
\* setError(null), once per Result of calls.
RECURSIVE SubscriptionCallback(_, _)
SubscriptionCallback(h, calls) ==
    IF calls = <<>> THEN h
    ELSE SubscriptionCallback(
             [h EXCEPT !.data = <<Head(calls)>>, !.loading = FALSE, !.error = "none"],
             Tail(calls))

\* A query factory that throws instead of returning a query.
QThrows == [throws |-> "FactoryError"]

refetch_LeavesLoading(h, init, w, query) ==
    IF query = QThrows
    THEN [h EXCEPT !.error = QThrows.throws, !.onError = 1]
    ELSE LET r == executeQuery(init, w, query)
         IN  IF r.error = "none"
             THEN [h EXCEPT !.data = <<r>>, !.error = "none", !.loading = FALSE,
                            !.onError = 0]
             ELSE [h EXCEPT !.error = r.error, !.onError = 1]

\* executeQuery of the hook, exposed as refetch: the factory and
\* engine.executeQuery run inside try, the catch sets the error and calls
\* onError, finally sets loading to false.
refetch(h, init, w, query) ==
    IF query = QThrows
    THEN [h EXCEPT !.error = QThrows.throws, !.loading = FALSE, !.onError = 1]
    ELSE LET r == executeQuery(init, w, query)
         IN  IF r.error = "none"
             THEN [h EXCEPT !.data = <<r>>, !.error = "none", !.loading = FALSE,
                            !.onError = 0]
             ELSE [h EXCEPT !.error = r.error, !.loading = FALSE, !.onError = 1]

\* The subscription effect: manual mode executes once; otherwise
\* setLoading(true), subscribe, and on a throw setError, setLoading(false),
\* onError.
SubscriptionEffect(h, init, reg, w, query) ==
    IF h.manual
    THEN [hook |-> refetch(h, init, w, query), reg |-> reg, error |-> "none",
          id |-> 0, calls |-> <<>>]
    ELSE LET h1 == [h EXCEPT !.loading = TRUE, !.onError = 0]
             s == IF query = QThrows
                  THEN [error |-> QThrows.throws, id |-> 0, calls |-> <<>>, reg |-> reg]
                  ELSE subscribeQuery(init, reg, w, query, "hook")
         IN  IF s.error = "none"
             THEN [hook |-> [SubscriptionCallback(h1, s.calls) EXCEPT
                                !.subscriptionRef = <<s.id>>],
                   reg |-> s.reg, error |-> "none", id |-> s.id, calls |-> s.calls]
             ELSE [hook |-> [h1 EXCEPT !.error = s.error, !.loading = FALSE, !.onError = 1],
                   reg |-> reg, error |-> s.error, id |-> 0, calls |-> <<>>]

SubscriptionCleanup_KeepsRef(h, init, reg) ==
    IF h.manual \/ h.subscriptionRef = <<>>
    THEN [hook |-> h, reg |-> reg, error |-> "none", ret |-> FALSE]
    ELSE LET u == unsubscribeQuery(init, reg, h.subscriptionRef[1])
         IN  IF u.error # "none"
             THEN [hook |-> h, reg |-> reg, error |-> u.error, ret |-> FALSE]
             ELSE [hook |-> h, reg |-> u.reg, error |-> "none", ret |-> u.ret]

SubscriptionCleanup_SkipsUnsubscribe(h, init, reg) ==
    [hook |-> [h EXCEPT !.subscriptionRef = <<>>], reg |-> reg, error |-> "none",
     ret |-> FALSE]

\* The cleanup returned by the effect (none in manual mode): release the
\* held id and clear the ref; a throw of unsubscribeQuery leaves the ref.
SubscriptionCleanup(h, init, reg) ==
    IF h.manual \/ h.subscriptionRef = <<>>
    THEN [hook |-> h, reg |-> reg, error |-> "none", ret |-> FALSE]
    ELSE LET u == unsubscribeQuery(init, reg, h.subscriptionRef[1])
         IN  IF u.error # "none"
             THEN [hook |-> h, reg |-> reg, error |-> u.error, ret |-> FALSE]
             ELSE [hook |-> [h EXCEPT !.subscriptionRef = <<>>], reg |-> u.reg,
                   error |-> "none", ret |-> u.ret]

(***************************************************************************)
(* useEntityList (hooks.ts): the query its factory builds from the         *)
(* options.  An option is Undefined when absent; withComponents and        *)
(* withoutComponents are otherwise [t |-> "array", v |-> names], limit a   *)
(* number.                                                                 *)
(***************************************************************************)
Array(names) == [t |-> "array", v |-> names]

\* if (value): undefined, null, 0, the empty string and false are falsy,
\* every array is truthy.
Truthy(value) ==
    CASE value.t \in {"undefined", "null"} -> FALSE
      [] value.t \in {"num", "bool"} -> value.v # 0
      [] value.t = "str" -> value.v # ""
      [] OTHER -> TRUE

useEntityList(options) ==
    LET b0 == select(EntityQueryBuilder, <<"id", "name", "position", "rotation", "scale">>)
        b1 == IF Truthy(options.withComponents) THEN with(b0, options.withComponents.v)
              ELSE b0
        b2 == IF Truthy(options.withoutComponents)
              THEN without(b1, options.withoutComponents.v)
              ELSE b1
    IN  IF Truthy(options.limit) THEN limit(b2, options.limit.v) ELSE b2

(***************************************************************************)
(* The queries the model's callers build.                                  *)
(***************************************************************************)
QSelectX == select(EntityQueryBuilder, <<"x">>)
QHigh == where(with(EntityQueryBuilder, <<"Transform">>), "x", ">", Num(1))
QBogus == select(EntityQueryBuilder, <<"bogus">>)
QNegative == limit(EntityQueryBuilder, -1)
QOverlap == without(with(EntityQueryBuilder, <<"Transform">>), <<"Transform">>)

CallerQueries == {QSelectX, QHigh, QBogus, QNegative}

BaseBuilders ==
    { EntityQueryBuilder, QSelectX, QHigh, QBogus, QOverlap,
      orderBy(select(EntityQueryBuilder, <<"x", "name">>), "x", "desc"),
      orderBy(select(EntityQueryBuilder, <<"name">>), "name", "asc"),
      without(with(EntityQueryBuilder, <<"Transform">>), <<"Enemy">>),
      select(with(without(EntityQueryBuilder, <<"Enemy", "Transform">>), <<"Enemy">>), <<"x">>),
      select(QOverlap, <<"bogus">>),
      without(with(EntityQueryBuilder, <<"Bogus">>), <<"Bogus">>) }

\* What a client callback may do when it is invoked during a sweep.
CallbackActs ==
    {[kind |-> "none", id |-> 0, m |-> [e |-> 1, x |-> 1]]}
    \cup {[kind |-> "unsubscribe", id |-> i, m |-> [e |-> 1, x |-> 1]] : i \in 1..MaxSubs}
    \cup {[kind |-> "mutate", id |-> 0, m |-> m] : m \in Mutations}

(***************************************************************************)
(* State.                                                                  *)
(***************************************************************************)
VARIABLES
    initialized,  \* EngineAPI: initialized and holding an engine
    world,        \* the store
    pending,      \* mutations queued during a sweep
    registry,     \* the subscription registry
    sweeping,     \* a re-evaluation sweep is in progress
    sweepTodo,    \* the entries of the sweep's snapshot not yet evaluated
    sweepStart,   \* history: the ids Active when the sweep started
    evaluated,    \* history: the ids re-evaluated so far in the sweep
    failed,       \* history: the ids whose re-evaluation failed in the sweep
    delivered,    \* history: the ids notified so far in the sweep, in order
    stable,       \* history: ids whose last delivery the world has not changed since
    issued,       \* history: the ids returned by subscribe, in order
    lastOp,       \* the last call and what it returned
    hook,         \* a useEntityQuery instance
    q             \* a one-shot query: builder, page and Results

vars == <<initialized, world, pending, registry, sweeping, sweepTodo, sweepStart,
          evaluated, failed, delivered, stable, issued, lastOp, hook, q>>

Op(op, id, target, ret, wasActive, error, calls, cb) ==
    [op |-> op, id |-> id, target |-> target, ret |-> ret, wasActive |-> wasActive,
     error |-> error, calls |-> calls, cb |-> cb]

NoQuery == [stage |-> "none", b |-> EntityQueryBuilder, k |-> 0, n |-> 0,
            res |-> QueryResult("none", <<>>, 0), full |-> QueryResult("none", <<>>, 0)]

\* The store of the registry's world: every entity has a Transform with x = 1.
World0 == [e \in Entities |-> Entity(TRUE, {"Transform"}, [f \in {"x"} |-> Num(1)])]

InitCommon ==
    /\ initialized = TRUE
    /\ pending = <<>>
    /\ registry = NewRegistry
    /\ sweeping = FALSE
    /\ sweepTodo = <<>>
    /\ sweepStart = {}
    /\ evaluated = {}
    /\ failed = {}
    /\ delivered = <<>>
    /\ stable = {}
    /\ issued = <<>>
    /\ lastOp = Op("init", 0, 0, FALSE, FALSE, "none", <<>>, "none")
    /\ hook = NewHook(FALSE)

Init ==
    /\ InitCommon
    /\ world = World0
    /\ q = NoQuery

(***************************************************************************)
(* Operations of a client of the registry.                                 *)
(***************************************************************************)
\* subscribe(descriptor, callback) between two ticks.
Subscribe(query) ==
    /\ ~sweeping
    /\ registry.nextId <= MaxSubs
    /\ \E s \in {subscribeQuery(initialized, registry, world, query, "client")} :
           /\ registry' = s.reg
           /\ issued' = IF s.error = "none" THEN Append(issued, s.id) ELSE issued
           /\ stable' = IF s.error = "none" THEN stable \cup {s.id} ELSE stable
           /\ lastOp' = Op("subscribe", s.id, 0, FALSE, FALSE, s.error, s.calls, "none")
    /\ UNCHANGED <<initialized, world, pending, sweeping, sweepTodo, sweepStart,
                   evaluated, failed, delivered, hook, q>>

\* unsubscribe(id) between two ticks, for any id, known or not.
Unsubscribe(id) ==
    /\ ~sweeping
    /\ \E u \in {unsubscribeQuery(initialized, registry, id)} :
           /\ registry' = u.reg
           /\ stable' = stable \ {id}
           /\ lastOp' = Op("unsubscribe", id, id, u.ret, id \in Active(registry),
                           u.error, <<>>, "none")
    /\ UNCHANGED <<initialized, world, pending, sweeping, sweepTodo, sweepStart,
                   evaluated, failed, delivered, issued, hook, q>>

\* A mutation of the store by the host between two ticks.
Mutate(m) ==
    /\ ~sweeping
    /\ hook.phase # "effect"
    /\ \E r \in {RequestMutation(world, pending, sweeping, m)} :
           /\ world' = r.world
           /\ pending' = r.pending
           /\ stable' = IF r.world = world THEN stable ELSE {}
    /\ lastOp' = Op("mutate", 0, 0, FALSE, FALSE, "none", <<>>, "none")
    /\ UNCHANGED <<initialized, registry, sweeping, sweepTodo, sweepStart,
                   evaluated, failed, delivered, issued, hook, q>>

(***************************************************************************)
(* tick(): the store applies the queued mutations, then the sweep          *)
(* re-evaluates the snapshot of the Active subscriptions one by one.       *)
(***************************************************************************)
TickBegin ==
    /\ ~sweeping
    /\ hook.phase # "effect"
    /\ assertInitialized(initialized) = "none"
    /\ world' = ApplyAll(world, pending)
    /\ pending' = <<>>
    /\ stable' = IF world' = world THEN stable ELSE {}
    /\ sweeping' = TRUE
    /\ sweepTodo' = Snapshot(registry, 1)
    /\ sweepStart' = Active(registry)
    /\ evaluated' = {}
    /\ failed' = {}
    /\ delivered' = <<>>
    /\ lastOp' = Op("tick", 0, 0, FALSE, FALSE, "none", <<>>, "none")
    /\ UNCHANGED <<initialized, registry, issued, hook, q>>

\* The callback of a client subscription, invoked during the sweep, may
\* call unsubscribe or request a mutation of the world.
ClientCallback(act, reg, w, queue) ==
    IF act.kind = "unsubscribe"
    THEN LET u == unsubscribeQuery(initialized, reg, act.id)
         IN  [reg |-> u.reg, world |-> w, pending |-> queue, ret |-> u.ret]
    ELSE IF act.kind = "mutate"
    THEN LET r == RequestMutation(w, queue, TRUE, act.m)
         IN  [reg |-> reg, world |-> r.world, pending |-> r.pending, ret |-> FALSE]
    ELSE [reg |-> reg, world |-> w, pending |-> queue, ret |-> FALSE]

\* The sweep goes on to the next entry of its snapshot, whether or not the
\* evaluation of the head failed and whatever was cancelled meanwhile.
SweepRest_SkipsCancelled(todo, fail, reg) ==
    SelectSeq(Tail(todo), LAMBDA entry : entry.id \in Active(reg))

SweepRest_AbortsOnError(todo, fail, reg) == IF fail THEN <<>> ELSE Tail(todo)

SweepRest(todo, fail, reg) == Tail(todo)

\* The cache of an Active subscription is replaced by the Result delivered.
StoreCache(reg, id, result) ==
    IF id \in Active(reg) THEN [reg EXCEPT !.subs[id].cache = result] ELSE reg

\* The entry is notified: its cache is replaced and its callback runs.
InvokeCallback(entry, r, act, reg, w, queue) ==
    IF ~r.notify
    THEN [reg |-> reg, world |-> w, pending |-> queue, ret |-> FALSE]
    ELSE IF entry.owner = "client"
    THEN ClientCallback(act, StoreCache(reg, entry.id, r.result), w, queue)
    ELSE [reg |-> StoreCache(reg, entry.id, r.result), world |-> w, pending |-> queue,
          ret |-> FALSE]

\* One step of the sweep: the head of the snapshot is re-evaluated.
Evaluate(fail, act) ==
    /\ sweeping
    /\ sweepTodo # <<>>
    /\ \E entry \in {Head(sweepTodo)} :
       \E r \in {Reevaluate(world, entry, fail)} :
       \E cb \in {InvokeCallback(entry, r, act, registry, world, pending)} :
           /\ r.notify /\ entry.owner = "client" /\ act.kind = "mutate"
                => Len(pending) < MaxPending
           /\ ~(r.notify /\ entry.owner = "client") => act.kind = "none"
           /\ registry' = cb.reg
           /\ world' = cb.world
           /\ pending' = cb.pending
           /\ hook' = IF r.notify /\ entry.owner = "hook" /\ hook.phase # "unmounted"
                      THEN SubscriptionCallback(hook, <<r.result>>) ELSE hook
           /\ delivered' = IF r.notify THEN Append(delivered, entry.id) ELSE delivered
           /\ stable' = (IF r.notify THEN stable \cup {entry.id} ELSE stable)
                          \ (IF act.kind = "unsubscribe" THEN {act.id} ELSE {})
           /\ evaluated' = evaluated \cup {entry.id}
           /\ failed' = IF fail THEN failed \cup {entry.id} ELSE failed
           /\ lastOp' = Op("evaluate", entry.id, act.id, cb.ret,
                           act.kind = "unsubscribe" /\ act.id \in Active(registry),
                           IF fail THEN "ExecutionError" ELSE "none",
                           IF r.notify THEN <<r.result>> ELSE <<>>, act.kind)
    /\ sweepTodo' = SweepRest(sweepTodo, fail, registry')
    /\ UNCHANGED <<initialized, sweeping, sweepStart, issued, q>>

TickEnd ==
    /\ sweeping
    /\ sweepTodo = <<>>
    /\ sweeping' = FALSE
    /\ sweepStart' = {}
    /\ evaluated' = {}
    /\ failed' = {}
    /\ delivered' = <<>>
    /\ lastOp' = Op("tickEnd", 0, 0, FALSE, FALSE, "none", <<>>, "none")
    /\ UNCHANGED <<initialized, world, pending, registry, sweepTodo, stable, issued,
                   hook, q>>

Next ==
    \/ \E query \in CallerQueries : Subscribe(query)
    \/ \E id \in 0..(MaxSubs + 1) : Unsubscribe(id)
    \/ \E m \in Mutations : Mutate(m)
    \/ TickBegin
    \/ \E fail \in BOOLEAN, act \in CallbackActs : Evaluate(fail, act)
    \/ TickEnd

Spec == Init /\ [][Next]_vars

(***************************************************************************)
(* A component that uses useEntityQuery: React runs the effect at mount,   *)
(* the cleanup and then the effect again when the deps change, and the     *)
(* cleanup at unmount.  Nothing else runs between a cleanup and the effect *)
(* that follows it.                                                        *)
(***************************************************************************)
\* What the effect does to hook h: the hook and registry after it, the id
\* it subscribed (0 for none), the Results its callback received and the
\* error it caught.
EffectOutcome(h) ==
    LET r == SubscriptionEffect(h, initialized, registry, world, h.query)
    IN  [hook |-> [r.hook EXCEPT !.phase = "idle"], reg |-> r.reg, error |-> r.error,
         id |-> r.id, calls |-> r.calls]

CleanupOutcome(phase, query) ==
    LET r == SubscriptionCleanup(hook, initialized, registry)
    IN  [hook |-> [r.hook EXCEPT !.phase = phase, !.query = query], reg |-> r.reg,
         error |-> r.error, ret |-> r.ret,
         target |-> IF hook.subscriptionRef = <<>> THEN 0 ELSE hook.subscriptionRef[1]]

Mount(manual, query) ==
    /\ hook.phase = "unmounted"
    /\ ~sweeping
    /\ registry.nextId <= MaxSubs
    /\ \E r \in {EffectOutcome([NewHook(manual) EXCEPT !.query = query])} :
          /\ hook' = r.hook
          /\ registry' = r.reg
          /\ issued' = IF r.id # 0 THEN Append(issued, r.id) ELSE issued
          /\ stable' = IF r.id # 0 THEN stable \cup {r.id} ELSE stable
          /\ lastOp' = Op("effect", r.id, 0, FALSE, FALSE, r.error, r.calls, "none")
    /\ UNCHANGED <<initialized, world, pending, sweeping, sweepTodo, sweepStart,
                   evaluated, failed, delivered, q>>

DepsChange(query) ==
    /\ hook.phase = "idle"
    /\ ~sweeping
    /\ registry.nextId <= MaxSubs
    /\ query # hook.query
    /\ \E r \in {CleanupOutcome("effect", query)} :
          /\ hook' = r.hook
          /\ registry' = r.reg
          /\ stable' = stable \ {r.target}
          /\ lastOp' = Op("cleanup", r.target, r.target, r.ret,
                          r.target \in Active(registry), r.error, <<>>, "none")
    /\ UNCHANGED <<initialized, world, pending, sweeping, sweepTodo, sweepStart,
                   evaluated, failed, delivered, issued, q>>

RunEffect ==
    /\ hook.phase = "effect"
    /\ \E r \in {EffectOutcome(hook)} :
          /\ hook' = r.hook
          /\ registry' = r.reg
          /\ issued' = IF r.id # 0 THEN Append(issued, r.id) ELSE issued
          /\ stable' = IF r.id # 0 THEN stable \cup {r.id} ELSE stable
          /\ lastOp' = Op("effect", r.id, 0, FALSE, FALSE, r.error, r.calls, "none")
    /\ UNCHANGED <<initialized, world, pending, sweeping, sweepTodo, sweepStart,
                   evaluated, failed, delivered, q>>

Unmount ==
    /\ hook.phase = "idle"
    /\ ~sweeping
    /\ \E r \in {CleanupOutcome("unmounted", hook.query)} :
          /\ hook' = r.hook
          /\ registry' = r.reg
          /\ stable' = stable \ {r.target}
          /\ lastOp' = Op("cleanup", r.target, r.target, r.ret,
                          r.target \in Active(registry), r.error, <<>>, "none")
    /\ UNCHANGED <<initialized, world, pending, sweeping, sweepTodo, sweepStart,
                   evaluated, failed, delivered, issued, q>>

Refetch ==
    /\ hook.phase = "idle"
    /\ ~sweeping
    /\ hook' = refetch(hook, initialized, world, hook.query)
    /\ lastOp' = Op("refetch", 0, 0, FALSE, FALSE, hook'.error, <<>>, "none")
    /\ UNCHANGED <<initialized, world, pending, registry, sweeping, sweepTodo,
                   sweepStart, evaluated, failed, delivered, stable, issued, q>>

NextHook ==
    \/ \E manual \in BOOLEAN, query \in CallerQueries : Mount(manual, query)
    \/ \E query \in CallerQueries : DepsChange(query)
    \/ RunEffect
    \/ Unmount
    \/ Refetch
    \/ \E m \in Mutations : Mutate(m)
    \/ TickBegin
    \/ Evaluate(FALSE, CHOOSE act \in CallbackActs : act.kind = "none")
    \/ TickEnd

SpecHook == Init /\ [][NextHook]_vars

(***************************************************************************)
(* The hook over an EngineAPI that is disposed while hooks use it: App's   *)
(* cleanup disposes the EngineAPI, and the hooks below it run their        *)
(* cleanups afterwards.                                                    *)
(***************************************************************************)
DisposeEngine ==
    /\ initialized
    /\ ~sweeping
    /\ initialized' = FALSE
    /\ lastOp' = Op("dispose", 0, 0, FALSE, FALSE, "none", <<>>, "none")
    /\ UNCHANGED <<world, pending, registry, sweeping, sweepTodo, sweepStart, evaluated,
                   failed, delivered, stable, issued, hook, q>>

NextHookDispose ==
    \/ \E manual \in BOOLEAN, query \in CallerQueries : Mount(manual, query)
    \/ \E query \in CallerQueries : DepsChange(query)
    \/ RunEffect
    \/ Unmount
    \/ Refetch
    \/ DisposeEngine

SpecHookDispose == Init /\ [][NextHookDispose]_vars

(***************************************************************************)
(* The hook with query factories that may throw, over an EngineAPI that    *)
(* may be disposed.                                                        *)
(***************************************************************************)
Factories == CallerQueries \cup {QThrows}

NextHookErrors ==
    \/ \E manual \in BOOLEAN, query \in Factories : Mount(manual, query)
    \/ \E query \in Factories : DepsChange(query)
    \/ RunEffect
    \/ Unmount
    \/ Refetch
    \/ DisposeEngine

SpecHookErrors == Init /\ [][NextHookErrors]_vars

(***************************************************************************)
(* One-shot queries: a caller builds a query on a base builder, pages it   *)
(* with limit/offset or page, and executes it against a world.             *)
(***************************************************************************)
InitExec ==
    /\ InitCommon
    /\ world \in Worlds
    /\ \E b \in BaseBuilders : q = [NoQuery EXCEPT !.stage = "built", !.b = b]

Executed(stage, k, n, paged) ==
    /\ q.stage = "built"
    /\ q' = [stage |-> stage, b |-> q.b, k |-> k, n |-> n,
             res |-> executeQuery(initialized, world, paged),
             full |-> executeQuery(initialized, world, q.b)]
    /\ lastOp' = Op("execute", 0, 0, FALSE, FALSE, q'.res.error, <<>>, "none")
    /\ UNCHANGED <<initialized, world, pending, registry, sweeping, sweepTodo,
                   sweepStart, evaluated, failed, delivered, stable, issued, hook>>

ExecuteOnce == Executed("executed", 0, 0, q.b)

ExecuteLimitOffset(k, n) == Executed("paged", k, n, offset(limit(q.b, n), k))

ExecutePage(pageIndex, perPage) ==
    Executed("paged", pageIndex * perPage, perPage, page(q.b, pageIndex, perPage))

NextExec ==
    \/ ExecuteOnce
    \/ \E k \in 0..MaxPage, n \in 0..MaxPage : ExecuteLimitOffset(k, n)
    \/ \E pageIndex \in 0..MaxPage, perPage \in 0..MaxPage : ExecutePage(pageIndex, perPage)

SpecExec == InitExec /\ [][NextExec]_vars

(***************************************************************************)
(* One filter evaluated over a world: the verdict of the filter evaluator  *)
(* on every entity and the Result of the query that has this one filter.   *)
(***************************************************************************)
FilterValues == {Null, Num(1), Num(2), Str(1), Bool(TRUE)}

Filters == {FilterExpr(field, op, value) : field \in Fields, op \in CompareOp,
                                            value \in FilterValues}

InitFilter ==
    /\ InitCommon
    /\ world \in Worlds
    /\ \E f \in Filters :
          q = [stage |-> "filter", f |-> f, passes |-> [e \in Entities |-> FALSE],
               res |-> QueryResult("none", <<>>, 0)]

EvaluateFilter ==
    /\ q.stage = "filter"
    /\ q' = [stage |-> "filtered", f |-> q.f,
             passes |-> [e \in Entities |-> PassesFilter(world[e], q.f)],
             res |-> executeQuery(initialized, world,
                                  where(EntityQueryBuilder, q.f.field, q.f.op, q.f.value))]
    /\ lastOp' = Op("execute", 0, 0, FALSE, FALSE, q'.res.error, <<>>, "none")
    /\ UNCHANGED <<initialized, world, pending, registry, sweeping, sweepTodo,
                   sweepStart, evaluated, failed, delivered, stable, issued, hook>>

NextFilter == EvaluateFilter

SpecFilter == InitFilter /\ [][NextFilter]_vars

(***************************************************************************)
(* A caller of one EntityQueryBuilder: at most MaxCalls calls of its       *)
(* methods, in any order.  q holds the heap, this.descriptor, the          *)
(* descriptor build() returned with its value at that moment, the text     *)
(* toJSON() returned, the last call, and what the caller passed so far:    *)
(* selected (last select), required and forbidden (all names passed to     *)
(* with and without), wheres (where arguments in call order), ordered      *)
(* (last orderBy), expected (the limit and offset the caller last asked    *)
(* for, through limit, offset or page; never when it asked for none) and   *)
(* before (the value of this.descriptor before the last call).             *)
(***************************************************************************)
SelectArgs == {<<>>, <<"x">>, <<"name", "x">>}
ComponentArgs == {<<"Transform">>, <<"Enemy">>, <<"Transform", "Enemy">>}
WhereArgs == {FilterExpr("x", ">", Num(1)), FilterExpr("name", "==", Null)}
OrderArgs == {[field |-> "x", direction |-> "desc"],
              [field |-> "x", direction |-> "undefined"],
              [field |-> "name", direction |-> "asc"]}
PageNumbers == {-1, 0, 1, MaxPage}
PerPage == {1, 2}

Call(op, args, error) == [op |-> op, args |-> args, ret |-> "this", error |-> error]

InitBuilder ==
    /\ InitCommon
    /\ world = World0
    /\ \E c \in {Construct(EntityQueryBuilder)} :
          q = [stage |-> "builder", calls |-> 0, heap |-> c.heap,
               descriptor |-> c.descriptor, built |-> <<>>, snapshot |-> <<>>,
               json |-> <<>>, last |-> Call("new", <<>>, "none"),
               selected |-> <<>>, required |-> {}, forbidden |-> {}, wheres |-> <<>>,
               ordered |-> <<>>, expected |-> [limit |-> Null, offset |-> Undefined],
               never |-> TRUE, before |-> Deref(c.heap, c.descriptor)]

BuilderFrame ==
    UNCHANGED <<initialized, world, pending, registry, sweeping, sweepTodo, sweepStart,
                evaluated, failed, delivered, stable, issued, lastOp, hook>>

\* The value of this.descriptor.
This == Deref(q.heap, q.descriptor)

\* A method of the builder ran and left this.descriptor at the value v.
Method(op, args, v, assignsSelect, passed) ==
    /\ q.stage = "builder"
    /\ q.calls < MaxCalls
    /\ \E st \in {Store(q.heap, q.descriptor, v, assignsSelect)} :
          q' = [passed EXCEPT !.calls = q.calls + 1, !.heap = st.heap,
                              !.descriptor = st.descriptor,
                              !.last = Call(op, args, "none"), !.before = This]
    /\ BuilderFrame

Select(fields) ==
    Method("select", fields, select(This, fields), TRUE, [q EXCEPT !.selected = fields])

With(components) ==
    Method("with", components, with(This, components), FALSE,
           [q EXCEPT !.required = @ \cup Range(components)])

Without(components) ==
    Method("without", components, without(This, components), FALSE,
           [q EXCEPT !.forbidden = @ \cup Range(components)])

Where(f) ==
    Method("where", <<f>>, where(This, f.field, f.op, f.value), FALSE,
           [q EXCEPT !.wheres = Append(@, f)])

OrderByCall(o) ==
    Method("orderBy", <<o>>, orderBy(This, o.field, o.direction), FALSE,
           [q EXCEPT !.ordered = <<o>>])

Limit(n) ==
    Method("limit", <<n>>, limit(This, n), FALSE,
           [q EXCEPT !.expected.limit = Num(n), !.never = FALSE])

Offset(n) ==
    Method("offset", <<n>>, offset(This, n), FALSE,
           [q EXCEPT !.expected.offset = Num(n), !.never = FALSE])

Page(pageIndex, perPage) ==
    Method("page", <<pageIndex, perPage>>, page(This, pageIndex, perPage), FALSE,
           [q EXCEPT !.expected = [limit |-> Num(perPage),
                                   offset |-> Num(pageIndex * perPage)],
                     !.never = FALSE])

Build ==
    /\ q.stage = "builder"
    /\ q.calls < MaxCalls
    /\ q' = [q EXCEPT !.calls = @ + 1, !.built = <<build(q.descriptor)>>,
                      !.snapshot = <<This>>, !.before = This,
                      !.last = [Call("build", <<>>, "none") EXCEPT !.ret = "descriptor"]]
    /\ BuilderFrame

ToJSON ==
    /\ q.stage = "builder"
    /\ q.calls < MaxCalls
    /\ q' = [q EXCEPT !.calls = @ + 1, !.json = <<toJSON(This)>>, !.before = This,
                      !.last = [Call("toJSON", <<>>, "none") EXCEPT !.ret = "json"]]
    /\ BuilderFrame

NextBuilder ==
    \/ \E fields \in SelectArgs : Select(fields)
    \/ \E components \in ComponentArgs : With(components)
    \/ \E components \in ComponentArgs : Without(components)
    \/ \E f \in WhereArgs : Where(f)
    \/ \E o \in OrderArgs : OrderByCall(o)
    \/ \E n \in PageNumbers : Limit(n)
    \/ \E n \in PageNumbers : Offset(n)
    \/ \E pageIndex \in PageNumbers, perPage \in PerPage : Page(pageIndex, perPage)
    \/ Build
    \/ ToJSON

SpecBuilder == InitBuilder /\ [][NextBuilder]_vars

(***************************************************************************)
(* Callers of one EngineAPI.  initialize() is asynchronous: a call that    *)
(* finds the wrapper not initialized awaits the import of the module and   *)
(* then the creation of the engine, and other calls run in between.  q     *)
(* holds the wrapper, the engines, the initialize() calls made (each       *)
(* "returned" at once, at "import", at "create", "done" or "failed"), the  *)
(* number of engines created since the last dispose() call, and the last   *)
(* call with what isInitialized and getAllEntityIds() were before it.      *)
(***************************************************************************)
ApiCall(op, out, api) ==
    [op |-> op, error |-> out.error, ret |-> out.ret, called |-> out.called,
     ready |-> isInitialized(api), before |-> getAllEntityIds(api)]

\* A step of initialize(): the call itself or its continuation after an
\* await.
Resumed(step, api, wasm) == ApiCall(step, Outcome("none", FALSE, api, wasm, FALSE), api)

InitEngine ==
    /\ InitCommon
    /\ world = World0
    /\ q = [stage |-> "engine", api |-> NewEngineAPI, wasm |-> <<>>, tasks |-> <<>>,
            sinceDispose |-> 0,
            last |-> Resumed("new", NewEngineAPI, <<>>)]

EngineFrame ==
    UNCHANGED <<initialized, world, pending, registry, sweeping, sweepTodo, sweepStart,
                evaluated, failed, delivered, stable, issued, lastOp, hook>>

\* A synchronous method of the wrapper ran with outcome out.
Ran(op, out) ==
    /\ q' = [q EXCEPT !.api = out.api, !.wasm = out.wasm,
                      !.last = ApiCall(op, out, q.api)]
    /\ EngineFrame

\* initialize(canvas) up to its first await.
Initialize ==
    /\ q.stage = "engine"
    /\ Len(q.tasks) < MaxInits
    /\ q' = [q EXCEPT !.tasks = Append(@, IF q.api.initialized THEN "returned"
                                          ELSE "import"),
                      !.last = Resumed("initialize", q.api, q.wasm)]
    /\ EngineFrame

\* The import has resolved: Engine.create(canvas) is called and awaited.
ImportResolves(t) ==
    /\ q.stage = "engine"
    /\ q.tasks[t] = "import"
    /\ q' = [q EXCEPT !.tasks[t] = "create", !.last = Resumed("import", q.api, q.wasm)]
    /\ EngineFrame

\* Engine.create has resolved with a new engine: this.engine = it,
\* this.initialized = true.
CreateResolves(t) ==
    /\ q.stage = "engine"
    /\ q.tasks[t] = "create"
    /\ q' = [q EXCEPT !.tasks[t] = "done",
                      !.wasm = Append(@, NewWasmEngine),
                      !.api.engine = <<Len(q.wasm) + 1>>,
                      !.api.initialized = TRUE,
                      !.sinceDispose = @ + 1,
                      !.last = Resumed("create", q.api, q.wasm)]
    /\ EngineFrame

\* The import or Engine.create has rejected: initialize() rethrows.
InitializeRejects(t) ==
    /\ q.stage = "engine"
    /\ q.tasks[t] \in {"import", "create"}
    /\ q' = [q EXCEPT !.tasks[t] = "failed",
                      !.last = [Resumed("rejected", q.api, q.wasm) EXCEPT !.error = "Error"]]
    /\ EngineFrame

Dispose ==
    /\ q.stage = "engine"
    /\ \E out \in {dispose(q.api, q.wasm)} :
          /\ q' = [q EXCEPT !.api = out.api, !.wasm = out.wasm, !.sinceDispose = 0,
                            !.last = ApiCall("dispose", out, q.api)]
          /\ EngineFrame

IsInitialized ==
    /\ q.stage = "engine"
    /\ Ran("isInitialized", Outcome("none", isInitialized(q.api), q.api, q.wasm, FALSE))

CreateEntity(name) ==
    /\ q.stage = "engine"
    /\ q.api.engine # <<>> => q.wasm[q.api.engine[1]].next <= MaxEntities
    /\ \E out \in {createEntity(q.api, q.wasm, name)} : Ran("createEntity", out)

DeleteEntity(id) ==
    /\ q.stage = "engine"
    /\ \E out \in {deleteEntity(q.api, q.wasm, id)} : Ran("deleteEntity", out)

SetName(id, name, throws) ==
    /\ q.stage = "engine"
    /\ \E out \in {setName(q.api, q.wasm, id, name, throws)} : Ran("setName", out)

GetAllEntityIds ==
    /\ q.stage = "engine"
    /\ Ran("getAllEntityIds", Outcome("none", getAllEntityIds(q.api), q.api, q.wasm, FALSE))

Delegate(method) ==
    /\ q.stage = "engine"
    /\ \E out \in {delegate(q.api, q.wasm, method)} : Ran(method, out)

\* initialize(canvas) by a caller that awaits it before calling it again.
InitializeAlone ==
    /\ \A t \in 1..Len(q.tasks) : q.tasks[t] \notin {"import", "create"}
    /\ Initialize

NextEngine ==
    \/ InitializeAlone
    \/ \E t \in 1..MaxInits : t <= Len(q.tasks) /\ ImportResolves(t)
    \/ \E t \in 1..MaxInits : t <= Len(q.tasks) /\ CreateResolves(t)
    \/ \E t \in 1..MaxInits : t <= Len(q.tasks) /\ InitializeRejects(t)
    \/ Dispose
    \/ IsInitialized
    \/ CreateEntity("Cube")
    \/ \E id \in 1..MaxEntities : DeleteEntity(id)
    \/ \E id \in 1..MaxEntities, throws \in BOOLEAN : SetName(id, "Renamed", throws)
    \/ GetAllEntityIds
    \/ \E method \in DelegatingMethods : Delegate(method)

SpecEngine == InitEngine /\ [][NextEngine]_vars

(***************************************************************************)
(* Callers that do not await initialize(): calls of initialize() and       *)
(* dispose() interleave with the steps of the calls still pending.         *)
(***************************************************************************)
NextLifecycle ==
    \/ Initialize
    \/ \E t \in 1..MaxInits : t <= Len(q.tasks) /\ ImportResolves(t)
    \/ \E t \in 1..MaxInits : t <= Len(q.tasks) /\ CreateResolves(t)
    \/ \E t \in 1..MaxInits : t <= Len(q.tasks) /\ InitializeRejects(t)
    \/ Dispose
    \/ IsInitialized
    \/ CreateEntity("Cube")

SpecLifecycle == InitEngine /\ [][NextLifecycle]_vars

(***************************************************************************)
(* The getters of EngineAPI that put together what the engine returns.     *)
(* The engine returns undefined for what an entity does not have, a        *)
(* string for a name and an array for a vector.                            *)
(***************************************************************************)
\* get_name(id) ?? null
getName(name) == IF name.t \in {"undefined", "null"} THEN Null ELSE name

\* getPosition, getRotation and getScale: arr ? fromArray(arr) : null, and
\* null if any of the three is null.
getTransform(position, rotation, scale) ==
    IF ~Truthy(position) \/ ~Truthy(rotation) \/ ~Truthy(scale)
    THEN Null
    ELSE [t |-> "transform", v |-> <<position.v, rotation.v, scale.v>>]

getEntityData(id, name, position, rotation, scale) ==
    LET n == getName(name)
        transform == getTransform(position, rotation, scale)
    IN  IF ~Truthy(n) \/ ~Truthy(transform)
        THEN Null
        ELSE [t |-> "data", v |-> <<id, n.v, transform.v>>]

\* What the engine may hold of an entity.
EngineNames == {Undefined, Str(""), Str("Cube"), Str("Renamed")}

EngineVectors == {Undefined, Array(<<0, 0, 0>>)}

InitEntityData ==
    /\ InitCommon
    /\ world = World0
    /\ \E id \in 1..MaxEntities, name \in EngineNames,
          position \in EngineVectors, rotation \in EngineVectors, scale \in EngineVectors :
          q = [stage |-> "data", called |-> FALSE, id |-> id, name |-> name,
               position |-> position, rotation |-> rotation, scale |-> scale,
               ret |-> Null]

\* getEntityData(id) on an initialized EngineAPI.
GetEntityData ==
    /\ q.stage = "data"
    /\ ~q.called
    /\ q' = [q EXCEPT !.called = TRUE,
                      !.ret = getEntityData(q.id, q.name, q.position, q.rotation, q.scale)]
    /\ EngineFrame

NextEntityData == GetEntityData

SpecEntityData == InitEntityData /\ [][NextEntityData]_vars

(***************************************************************************)
(* useGizmoInteraction.  Numbers are JavaScript numbers: a finite number   *)
(* (counted in hundredths, so that Fin(1) is 0.01), NaN, Infinity or       *)
(* -Infinity.  A vector is <<x, y, z>>.                                    *)
(***************************************************************************)
MinScale == 1

Fin(n) == [k |-> "finite", v |-> n]
NaN == [k |-> "NaN", v |-> 0]
Infinity == [k |-> "Infinity", v |-> 1]
NegInfinity == [k |-> "Infinity", v |-> -1]

\* a + b
Plus(a, b) ==
    IF a.k = "NaN" \/ b.k = "NaN" THEN NaN
    ELSE IF a.k = "Infinity" /\ b.k = "Infinity" THEN IF a.v = b.v THEN a ELSE NaN
    ELSE IF a.k = "Infinity" THEN a
    ELSE IF b.k = "Infinity" THEN b
    ELSE Fin(a.v + b.v)

\* a >= b, false when either is NaN.
AtLeast(a, b) ==
    IF a.k = "NaN" \/ b.k = "NaN" THEN FALSE
    ELSE IF a.k = "Infinity" THEN a.v = 1 \/ a = b
    ELSE IF b.k = "Infinity" THEN b.v = -1
    ELSE a.v >= b.v

\* Math.max(a, b): NaN if either is NaN.
MathMax(a, b) ==
    IF a.k = "NaN" \/ b.k = "NaN" THEN NaN
    ELSE IF AtLeast(a, b) THEN a ELSE b

\* delta.x !== 0 || delta.y !== 0 || delta.z !== 0
NonZero(delta) == \E i \in 1..3 : delta[i] # Fin(0)

NewGizmoRefs == [isDraggingGizmo |-> FALSE, dragAxis |-> ""]

\* The property a tool writes.
ToolProperty(tool) ==
    CASE tool = "move" -> "position" [] tool = "rotate" -> "rotation"
      [] tool = "scale" -> "scale" [] OTHER -> "none"

gizmoMouseMove_WritesLast(refs, tool, selection, delta, current) ==
    IF tool = "select" \/ ~refs.isDraggingGizmo \/ selection = <<>> THEN {}
    ELSE {[entity |-> selection[Len(selection)], property |-> ToolProperty(tool),
           value |-> <<>>]}

\* handleMouseMove: the writes to entities it makes.  delta is what the
\* engine reports for the drag (for the rotate tool the vector part of the
\* rotation, zero for the identity), current what the engine holds for the
\* property of the first selected entity (<<>> if it has none).
gizmoMouseMove(refs, tool, selection, delta, current) ==
    IF tool = "select" \/ ~refs.isDraggingGizmo \/ selection = <<>> THEN {}
    ELSE IF ~NonZero(delta) \/ current = <<>> THEN {}
    ELSE IF tool = "scale"
    THEN {[entity |-> selection[1], property |-> "scale",
           value |-> [i \in 1..3 |-> MathMax(Fin(MinScale), Plus(current[i], delta[i]))]]}
    ELSE {[entity |-> selection[1], property |-> ToolProperty(tool), value |-> <<>>]}

\* handleMouseDown: called tells whether startGizmoDragAtCanvas was called,
\* axis is what it returns.
gizmoMouseDown(refs, tool, b, axis) ==
    IF b # 0 \/ tool = "select" THEN [refs |-> refs, called |-> FALSE]
    ELSE IF axis # ""
    THEN [refs |-> [isDraggingGizmo |-> TRUE, dragAxis |-> axis], called |-> TRUE]
    ELSE [refs |-> refs, called |-> TRUE]

gizmoMouseUp_KeepsFlag(refs) ==
    IF refs.isDraggingGizmo THEN [refs |-> refs, ends |-> 1]
    ELSE [refs |-> refs, ends |-> 0]

\* handleMouseUp: ends is the number of endGizmoDrag calls it makes.
gizmoMouseUp(refs) ==
    IF refs.isDraggingGizmo THEN [refs |-> NewGizmoRefs, ends |-> 1]
    ELSE [refs |-> refs, ends |-> 0]

(***************************************************************************)
(* useGizmo.  The gizmo is the engine's: whether it is visible, its mode   *)
(* and the entity it was last placed at (0 for none).                      *)
(***************************************************************************)
NewGizmo == [visible |-> FALSE, mode |-> "translate", at |-> 0]

toolToGizmoMode(tool) ==
    CASE tool = "move" -> "translate" [] tool = "rotate" -> "rotate"
      [] tool = "scale" -> "scale" [] OTHER -> "null"

hideGizmo(gizmo) == [gizmo EXCEPT !.visible = FALSE]

\* alive entities have a transform.
syncGizmoToEntity(gizmo, id, alive) ==
    IF id \in alive THEN [gizmo EXCEPT !.at = id, !.visible = TRUE] ELSE gizmo

\* The effect with dependencies [engine, selectedEntityIds, gizmoSpace].
SelectionEffect(gizmo, selection, alive) ==
    IF Len(selection) = 0 THEN hideGizmo(gizmo)
    ELSE IF Len(selection) = 1
    THEN IF selection[1] \in alive THEN syncGizmoToEntity(gizmo, selection[1], alive)
         ELSE hideGizmo(gizmo)
    ELSE IF selection[1] \in alive THEN syncGizmoToEntity(gizmo, selection[1], alive)
    ELSE gizmo

\* The effect with dependencies [engine, activeTool, selectedEntityIds.length].
ToolEffect(gizmo, tool, selection) ==
    IF toolToGizmoMode(tool) # "null"
    THEN [gizmo EXCEPT !.mode = toolToGizmoMode(tool),
                       !.visible = IF Len(selection) > 0 THEN TRUE ELSE @]
    ELSE hideGizmo(gizmo)

(***************************************************************************)
(* App (App.tsx) with the EngineAPI it creates.  ViewportCanvas calls      *)
(* initializeEngine once, when the canvas first has a size; the call       *)
(* awaits eng.initialize(canvas) and then, in one synchronous run, stores  *)
(* eng in engineRef, creates the cubes and starts the render loop.  The    *)
(* frames are animation-frame callbacks; unmounting runs the cleanup.      *)
(***************************************************************************)
\* The render callback: tick and reschedule while engineRef holds the engine.
\* ticked is the handle of the engine whose tick ran (0 for none).
render(engineRef, api, wasm) ==
    IF engineRef
    THEN LET out == delegate(api, wasm, "tick")
         IN  [attempted |-> TRUE, error |-> out.error,
              ticked |-> IF out.called THEN Target(api).e ELSE 0,
              reschedule |-> out.error = "none"]
    ELSE [attempted |-> FALSE, error |-> "none", ticked |-> 0, reschedule |-> FALSE]

cleanup_KeepsRef(engineRef, api, wasm) ==
    IF engineRef
    THEN [engineRef |-> TRUE, disposed |-> TRUE, out |-> dispose(api, wasm)]
    ELSE [engineRef |-> FALSE, disposed |-> FALSE,
          out |-> Outcome("none", FALSE, api, wasm, FALSE)]

\* The cleanup of App's last effect.
cleanup(engineRef, api, wasm) ==
    IF engineRef
    THEN [engineRef |-> FALSE, disposed |-> TRUE, out |-> dispose(api, wasm)]
    ELSE [engineRef |-> FALSE, disposed |-> FALSE,
          out |-> Outcome("none", FALSE, api, wasm, FALSE)]

Sizes == {0, 1, 2}

NoFrame == [op |-> "none", attempted |-> FALSE, error |-> "none", ticked |-> 0]

InitApp ==
    /\ InitCommon
    /\ world = World0
    /\ q = [stage |-> "app", mounted |-> TRUE, wasmReady |-> FALSE, canvasReady |-> FALSE,
            canvas |-> <<0, 0>>, phase |-> "none", api |-> NewEngineAPI, wasm |-> <<>>,
            engineRef |-> FALSE, engine |-> FALSE, resized |-> <<0, 0>>, frames |-> 0, frameCount |-> 0, disposed |-> FALSE, last |-> NoFrame]

\* init() has resolved: setWasmReady(true), and App renders ViewportCanvas.
WasmReady ==
    /\ q.stage = "app"
    /\ q.mounted /\ ~q.wasmReady
    /\ q' = [q EXCEPT !.wasmReady = TRUE, !.last = [NoFrame EXCEPT !.op = "wasmReady"]]
    /\ EngineFrame

\* The ResizeObserver of ViewportCanvas reports a size: the first size
\* with an area runs initializeEngine(canvas) up to its await, a later one
\* resizes the engine of the engine state, if set.
HandleResize(width, height) ==
    /\ q.stage = "app"
    /\ q.mounted /\ q.wasmReady
    /\ IF width > 0 /\ height > 0
       THEN IF ~q.canvasReady
            THEN q' = [q EXCEPT !.canvas = <<width, height>>, !.canvasReady = TRUE,
                               !.phase = IF q.engineRef \/ ~q.wasmReady THEN "returned"
                                         ELSE "import",
                               !.last = [NoFrame EXCEPT !.op = "canvasReady"]]
            ELSE \E out \in {IF q.engine THEN delegate(q.api, q.wasm, "resize")
                              ELSE Outcome("none", FALSE, q.api, q.wasm, FALSE)} :
                    q' = [q EXCEPT !.canvas = <<width, height>>,
                                   !.resized = IF out.called THEN <<width, height>> ELSE @,
                                   !.last = [NoFrame EXCEPT !.op = "resize",
                                                            !.error = out.error]]
       ELSE q' = [q EXCEPT !.last = [NoFrame EXCEPT !.op = "resize"]]
    /\ EngineFrame

AppImportResolves ==
    /\ q.stage = "app"
    /\ q.phase = "import"
    /\ q' = [q EXCEPT !.phase = "create", !.last = [NoFrame EXCEPT !.op = "import"]]
    /\ EngineFrame

\* eng.initialize(canvas) has resolved; initializeEngine runs to its end.
EngineCreated ==
    /\ q.stage = "app"
    /\ q.phase = "create"
    /\ \E eng \in {[q.api EXCEPT !.engine = <<Len(q.wasm) + 1>>, !.initialized = TRUE]} :
       \E c1 \in {createEntity(eng, Append(q.wasm, NewWasmEngine), "Cube1")} :
       \E c2 \in {createEntity(c1.api, c1.wasm, "Cube2")} :
       \E c3 \in {createEntity(c2.api, c2.wasm, "Cube3")} :
          q' = [q EXCEPT !.phase = "running", !.api = c3.api, !.wasm = c3.wasm,
                         !.resized = IF q.canvas[1] > 0 /\ q.canvas[2] > 0 THEN q.canvas
                                     ELSE @,
                         !.engineRef = TRUE, !.engine = q.mounted, !.frames = 1,
                         !.last = [NoFrame EXCEPT !.op = "start"]]
    /\ EngineFrame

\* eng.initialize(canvas) has rejected: the catch logs the error.
EngineFails ==
    /\ q.stage = "app"
    /\ q.phase \in {"import", "create"}
    /\ q' = [q EXCEPT !.phase = "failed", !.last = [NoFrame EXCEPT !.op = "failed"]]
    /\ EngineFrame

\* An animation frame: the render callback runs.
Frame ==
    /\ q.stage = "app"
    /\ q.frames > 0
    /\ q.frameCount < MaxCalls
    /\ \E r \in {render(q.engineRef, q.api, q.wasm)} :
          q' = [q EXCEPT !.frames = IF r.reschedule THEN 1 ELSE 0,
                         !.frameCount = IF r.attempted THEN @ + 1 ELSE @,
                         !.last = [op |-> "frame", attempted |-> r.attempted,
                                   error |-> r.error, ticked |-> r.ticked]]
    /\ EngineFrame

\* App unmounts: the cleanup runs.
UnmountApp ==
    /\ q.stage = "app"
    /\ q.mounted
    /\ \E c \in {cleanup(q.engineRef, q.api, q.wasm)} :
          q' = [q EXCEPT !.mounted = FALSE, !.engineRef = c.engineRef,
                         !.api = c.out.api, !.wasm = c.out.wasm,
                         !.disposed = c.disposed,
                         !.last = [NoFrame EXCEPT !.op = "unmount"]]
    /\ EngineFrame

NextApp ==
    \/ WasmReady
    \/ \E width \in Sizes, height \in Sizes : HandleResize(width, height)
    \/ AppImportResolves
    \/ EngineCreated
    \/ EngineFails
    \/ Frame
    \/ UnmountApp

SpecApp == InitApp /\ [][NextApp]_vars

(***************************************************************************)
(* Packing and unpacking entity ids.  The indexes are those of 20 bits,    *)
(* the generations those of the 12 bits left; the model draws them from    *)
(* both ends of the index range and from the ends and the middle of the    *)
(* generation range.                                                       *)
(***************************************************************************)
MaxIndex == 2 ^ IndexBits - 1
MaxGeneration == 2 ^ (Int32Bits - IndexBits) - 1

Indexes == (0..Spread) \cup ((MaxIndex - Spread)..MaxIndex)

Generations ==
    (0..Spread) \cup ((MaxGeneration \div 2 - Spread)..(MaxGeneration \div 2 + 1 + Spread))
        \cup ((MaxGeneration - Spread)..MaxGeneration)

InitEntityId ==
    /\ InitCommon
    /\ world = World0
    /\ \E index \in Indexes, generation \in Generations :
          q = [stage |-> "id", step |-> "input", index |-> index,
               generation |-> generation, id |-> 0, outIndex |-> 0, outGeneration |-> 0]

Pack ==
    /\ q.stage = "id"
    /\ q.step = "input"
    /\ q' = [q EXCEPT !.step = "packed", !.id = EntityId_pack(q.index, q.generation)]
    /\ EngineFrame

UnpackIndex ==
    /\ q.stage = "id"
    /\ q.step = "packed"
    /\ q' = [q EXCEPT !.step = "index", !.outIndex = EntityId_index(q.id)]
    /\ EngineFrame

UnpackGeneration ==
    /\ q.stage = "id"
    /\ q.step = "index"
    /\ q' = [q EXCEPT !.step = "unpacked", !.outGeneration = EntityId_generation(q.id)]
    /\ EngineFrame

NextEntityId ==
    \/ Pack
    \/ UnpackIndex
    \/ UnpackGeneration

SpecEntityId == InitEntityId /\ [][NextEntityId]_vars

(***************************************************************************)
(* Mouse events on the canvas, with an engine present and picking enabled. *)
(* The canvas sees the events that happen over it: a button pressed        *)
(* outside it can be released over it.  press follows the events           *)
(* themselves: whether a left-button press that began on the canvas is in  *)
(* progress, where it began and whether the pointer has since been more    *)
(* than the threshold away from there.                                     *)
(***************************************************************************)
Positions == {0, 3, 4} \X {0, 3}

Buttons == 0..3

NoPress == [active |-> FALSE, start |-> <<0, 0>>, moved |-> FALSE]

MouseEvent(op, b, pick, camera, press) ==
    [op |-> op, button |-> b, pick |-> pick, camera |-> camera, press |-> press]

InitViewport ==
    /\ InitCommon
    /\ world = World0
    /\ q = [stage |-> "viewport", refs |-> NewControls, press |-> NoPress,
            last |-> MouseEvent("mount", 0, "none", "none", NoPress)]

MouseDown(b, pos) ==
    /\ q.stage = "viewport"
    /\ q' = [q EXCEPT !.refs = handleMouseDown(q.refs, b, pos),
                      !.press = IF b = 0
                                THEN [active |-> TRUE, start |-> pos, moved |-> FALSE]
                                ELSE @,
                      !.last = MouseEvent("mousedown", b, "none", "none", q.press)]
    /\ EngineFrame

MouseMove(pos, shiftKey) ==
    /\ q.stage = "viewport"
    /\ \E r \in {handleMouseMove(q.refs, pos, shiftKey)} :
          q' = [q EXCEPT !.refs = r.refs,
                         !.press = IF q.press.active
                                   THEN [@ EXCEPT !.moved =
                                            @ \/ DistFromStart(pos, q.press.start)]
                                   ELSE @,
                         !.last = MouseEvent("mousemove", 0, "none", r.camera, q.press)]
    /\ EngineFrame

MouseUp(b, hit) ==
    /\ q.stage = "viewport"
    /\ \E r \in {handleMouseUp(q.refs, hit)} :
          q' = [q EXCEPT !.refs = r.refs, !.press = NoPress,
                         !.last = MouseEvent("mouseup", b, r.pick, "none", q.press)]
    /\ EngineFrame

MouseLeave ==
    /\ q.stage = "viewport"
    /\ q' = [q EXCEPT !.refs = handleMouseLeave(q.refs), !.press = NoPress,
                      !.last = MouseEvent("mouseleave", 0, "none", "none", q.press)]
    /\ EngineFrame

NextViewport ==
    \/ \E b \in Buttons, pos \in Positions : MouseDown(b, pos)
    \/ \E pos \in Positions, shiftKey \in BOOLEAN : MouseMove(pos, shiftKey)
    \/ \E b \in Buttons, hit \in BOOLEAN : MouseUp(b, hit)
    \/ MouseLeave

SpecViewport == InitViewport /\ [][NextViewport]_vars

(***************************************************************************)
(* useEntityList with each choice of options: absent, empty and non-empty  *)
(* component lists, and no limit or a limit from 0 to MaxPage.             *)
(***************************************************************************)
ComponentOptions ==
    {Undefined, Array(<<>>)} \cup {Array(<<c>>) : c \in Components}
        \cup {Array(<<"Transform", "Enemy">>)}

LimitOptions == {Undefined} \cup {Num(n) : n \in 0..MaxPage}

InitEntityList ==
    /\ InitCommon
    /\ world = World0
    /\ \E w \in ComponentOptions, wo \in ComponentOptions, l \in LimitOptions :
          q = [stage |-> "list", built |-> FALSE,
               options |-> [withComponents |-> w, withoutComponents |-> wo, limit |-> l],
               descriptor |-> EntityQueryBuilder]

\* The factory that useEntityList hands to useEntityQuery runs.
BuildList ==
    /\ q.stage = "list"
    /\ ~q.built
    /\ q' = [q EXCEPT !.built = TRUE, !.descriptor = build(useEntityList(q.options))]
    /\ EngineFrame

NextEntityList == BuildList

SpecEntityList == InitEntityList /\ [][NextEntityList]_vars

(***************************************************************************)
(* Mouse events, tool changes and selection changes under                  *)
(* useGizmoInteraction, with an engine present.  The left button goes      *)
(* down and up in turn, and every mouseup in the window is seen; a         *)
(* mouseup over the canvas runs the canvas listener and then the window    *)
(* listener.  open counts the drags the engine has started and not ended.  *)
(***************************************************************************)
JsNumbers == {Fin(n) : n \in -MaxScale..MaxScale} \cup {NaN, Infinity, NegInfinity}

Deltas == {<<a, Fin(0), Fin(0)>> : a \in JsNumbers} \cup {<<Fin(0), Fin(-1), Fin(1)>>}

Currents == {<<>>} \cup {<<a, a, Fin(1)>> : a \in JsNumbers}

Tools == {"select", "move", "rotate", "scale"}

Selections == {<<>>, <<1>>, <<2>>, <<1, 2>>, <<2, 1>>}

Axes == {"", "x", "none"}

GizmoEvent(op, b, called, ends, writes, refs, open) ==
    [op |-> op, button |-> b, called |-> called, ends |-> ends, writes |-> writes,
     wasDragging |-> refs.isDraggingGizmo, wasOpen |-> open]

InitGizmo ==
    /\ InitCommon
    /\ world = World0
    /\ q = [stage |-> "gizmo", refs |-> NewGizmoRefs, tool |-> "select",
            selection |-> <<>>, leftDown |-> FALSE, open |-> 0,
            last |-> GizmoEvent("mount", 0, FALSE, 0, {}, NewGizmoRefs, 0)]

GizmoMouseDown(b, axis) ==
    /\ q.stage = "gizmo"
    /\ b = 0 => ~q.leftDown
    /\ \E r \in {gizmoMouseDown(q.refs, q.tool, b, axis)} :
          q' = [q EXCEPT !.refs = r.refs,
                         !.leftDown = @ \/ b = 0,
                         !.open = IF r.called /\ axis # "" THEN @ + 1 ELSE @,
                         !.last = GizmoEvent("mousedown", b, r.called, 0, {}, q.refs, q.open)]
    /\ EngineFrame

GizmoMouseMove(delta, current) ==
    /\ q.stage = "gizmo"
    /\ \E w \in {gizmoMouseMove(q.refs, q.tool, q.selection, delta, current)} :
          q' = [q EXCEPT !.last = GizmoEvent("mousemove", 0, FALSE, 0, w, q.refs, q.open)]
    /\ EngineFrame

GizmoMouseUp(b, onCanvas) ==
    /\ q.stage = "gizmo"
    /\ b = 0 => q.leftDown
    /\ \E c \in {IF onCanvas THEN gizmoMouseUp(q.refs) ELSE [refs |-> q.refs, ends |-> 0]} :
       \E w \in {gizmoMouseUp(c.refs)} :
          q' = [q EXCEPT !.refs = w.refs,
                         !.leftDown = @ /\ b # 0,
                         !.open = @ - (c.ends + w.ends),
                         !.last = GizmoEvent("mouseup", b, FALSE, c.ends + w.ends, {},
                                             q.refs, q.open)]
    /\ EngineFrame

SetTool(tool) ==
    /\ q.stage = "gizmo"
    /\ tool # q.tool
    /\ q' = [q EXCEPT !.tool = tool,
                      !.last = GizmoEvent("tool", 0, FALSE, 0, {}, q.refs, q.open)]
    /\ EngineFrame

SetSelection(selection) ==
    /\ q.stage = "gizmo"
    /\ selection # q.selection
    /\ q' = [q EXCEPT !.selection = selection,
                      !.last = GizmoEvent("selection", 0, FALSE, 0, {}, q.refs, q.open)]
    /\ EngineFrame

NextGizmo ==
    \/ \E b \in 0..2, axis \in Axes : GizmoMouseDown(b, axis)
    \/ \E delta \in Deltas, current \in Currents : GizmoMouseMove(delta, current)
    \/ \E b \in 0..2, onCanvas \in BOOLEAN : GizmoMouseUp(b, onCanvas)
    \/ \E tool \in Tools : SetTool(tool)
    \/ \E selection \in Selections : SetSelection(selection)

SpecGizmo == InitGizmo /\ [][NextGizmo]_vars

(***************************************************************************)
(* Tool, selection and gizmo-space changes under useGizmo, with an engine  *)
(* present.  After a change of the store the component renders and the     *)
(* effects whose dependencies changed run, in the order of declaration;    *)
(* each action is the change with the effects it triggers.  Mounting ran   *)
(* both effects with the select tool and nothing selected.                 *)
(***************************************************************************)
Spaces == {"world", "local"}

InitGizmoSync ==
    /\ InitCommon
    /\ world = World0
    /\ q = [stage |-> "sync", tool |-> "select", selection |-> <<>>, space |-> "world",
            alive |-> {1, 2},
            gizmo |-> ToolEffect(SelectionEffect(NewGizmo, <<>>, {1, 2}), "select", <<>>),
            last |-> "mount"]

ChangeTool(tool) ==
    /\ q.stage = "sync"
    /\ tool # q.tool
    /\ q' = [q EXCEPT !.tool = tool,
                      !.gizmo = ToolEffect(@, tool, q.selection),
                      !.last = "tool"]
    /\ EngineFrame

ChangeSelection(selection) ==
    /\ q.stage = "sync"
    /\ selection # q.selection
    /\ \E g \in {SelectionEffect(q.gizmo, selection, q.alive)} :
          q' = [q EXCEPT !.selection = selection,
                         !.gizmo = IF Len(selection) # Len(q.selection)
                                   THEN ToolEffect(g, q.tool, selection) ELSE g,
                         !.last = "selection"]
    /\ EngineFrame

ChangeSpace(space) ==
    /\ q.stage = "sync"
    /\ space # q.space
    /\ q' = [q EXCEPT !.space = space,
                      !.gizmo = SelectionEffect(@, q.selection, q.alive),
                      !.last = "space"]
    /\ EngineFrame

\* An entity is deleted in the engine; no dependency of an effect changes.
Destroy(id) ==
    /\ q.stage = "sync"
    /\ id \in q.alive
    /\ q' = [q EXCEPT !.alive = @ \ {id}, !.last = "destroy"]
    /\ EngineFrame

NextGizmoSync ==
    \/ \E tool \in Tools : ChangeTool(tool)
    \/ \E selection \in Selections : ChangeSelection(selection)
    \/ \E space \in Spaces : ChangeSpace(space)
    \/ \E id \in {1, 2} : Destroy(id)

SpecGizmoSync == InitGizmoSync /\ [][NextGizmoSync]_vars

(***************************************************************************)
(* Properties of the registry and its sweep (Spec).                        *)
(***************************************************************************)
\* A step of the sweep that re-evaluates the head of its snapshot.
EvaluateStep == sweeping /\ sweepTodo # <<>> /\ vars' # vars

RowIds(r) == [i \in DOMAIN r.rows |-> r.rows[i].id]
RowFields(r) == [i \in DOMAIN r.rows |-> r.rows[i].fields]

\* The fresh Result of the sweep's head differs structurally from its cache.
HeadDiffers ==
    LET entry == Head(sweepTodo)
        fresh == Execute(world, entry.desc)
    IN  \/ fresh.total_count # entry.cache.total_count
        \/ RowIds(fresh) # RowIds(entry.cache)
        \/ RowFields(fresh) # RowFields(entry.cache)

HeadInvoked ==
    /\ delivered' = Append(delivered, Head(sweepTodo).id)
    /\ lastOp'.calls = <<Execute(world, Head(sweepTodo).desc)>>

HeadNotInvoked == delivered' = delivered /\ lastOp'.calls = <<>>

NoDuplicates(s) == \A i, j \in DOMAIN s : i # j => s[i] # s[j]

\* C1: in a sweep the callback of a subscription is invoked if and only if
\* its fresh Result differs structurally from its cached Result; no
\* subscription is notified twice in one tick; and a subscription whose last
\* delivery the world has not changed since is not notified.
C1_NotifiedIffChanged ==
    /\ [](NoDuplicates(delivered))
    /\ [][EvaluateStep =>
            /\ IF lastOp'.error = "none" /\ HeadDiffers
               THEN HeadInvoked ELSE HeadNotInvoked
            /\ Head(sweepTodo).id \in stable => HeadNotInvoked]_vars

\* C1 witness: a sweep that has notified one subscription and evaluated
\* another without notifying it.
C1_Witness ==
    /\ sweeping
    /\ delivered # <<>>
    /\ evaluated \ Range(delivered) # {}

\* A step in which unsubscribe(target) is called, by a client between two
\* ticks or by a callback during the sweep.
UnsubscribeStep ==
    \/ ~sweeping /\ lastOp'.op = "unsubscribe" /\ vars' # vars
    \/ EvaluateStep /\ lastOp'.cb = "unsubscribe"

\* C2: unsubscribe(id) returns true exactly when id is Active at the call
\* and leaves it Cancelled; a Cancelled id is never Active again; for an
\* unknown or Cancelled id it returns false without an error and changes
\* neither the active set, the cached Results nor the id counter.
C2_UnsubscribeIdempotent ==
    /\ [](lastOp.op = "unsubscribe" =>
            /\ lastOp.error = "none"
            /\ lastOp.ret = lastOp.wasActive
            /\ lastOp.target \notin Active(registry))
    /\ [][UnsubscribeStep =>
            /\ lastOp'.ret = (lastOp'.target \in Active(registry))
            /\ Active(registry') = Active(registry) \ {lastOp'.target}
            /\ registry'.nextId = registry.nextId
            /\ (~sweeping /\ lastOp'.target \notin Active(registry))
                  => registry' = registry]_vars
    /\ [][\A id \in 1..(registry.nextId - 1) :
              id \notin Active(registry) => id \notin Active(registry')]_vars

\* C2 witness: unsubscribe of an already Cancelled id has returned false.
C2_Witness ==
    /\ lastOp.op = "unsubscribe"
    /\ ~lastOp.ret
    /\ lastOp.target \in 1..(registry.nextId - 1)

\* C3: the ids returned by subscribe are strictly increasing and none is
\* returned twice, also after a cancellation.
C3_IdsNeverReused ==
    /\ [](\A i, j \in DOMAIN issued : i < j => issued[i] < issued[j])
    /\ [](lastOp.op = "subscribe" /\ lastOp.error = "none" =>
            /\ issued # <<>>
            /\ lastOp.id = issued[Len(issued)]
            /\ lastOp.id \in Active(registry))
    /\ [][lastOp'.op = "subscribe" /\ lastOp'.error = "none" /\ vars' # vars =>
            /\ lastOp'.id \notin Range(issued)
            /\ \A i \in Range(issued) : i < lastOp'.id]_vars

\* C3 witness: subscribe has returned an id after an earlier id was cancelled.
C3_Witness ==
    /\ lastOp.op = "subscribe"
    /\ lastOp.error = "none"
    /\ \E i \in Range(issued) : i \notin Active(registry)

SweepIds == {sweepTodo[i].id : i \in DOMAIN sweepTodo}

\* C5: the sweep in progress evaluates exactly the subscriptions Active
\* when it started, whatever is cancelled meanwhile, and a sweep starts from
\* the subscriptions Active at that moment, so that a cancelled id is not
\* evaluated or notified from the next sweep on.
C5_UnsubscribeDeferred ==
    /\ [](sweeping => evaluated \cup SweepIds = sweepStart)
    /\ [](sweeping => evaluated \cap SweepIds = {})
    /\ [](sweeping => Range(delivered) \subseteq evaluated)
    /\ [][~sweeping /\ sweeping' =>
            /\ sweepStart' = Active(registry)
            /\ evaluated' = {}]_vars

\* C5 witness: a subscription cancelled by the callback of another during
\* the sweep has still been evaluated and notified in that sweep.
C5_Witness ==
    /\ sweeping
    /\ lastOp.op = "evaluate"
    /\ lastOp.calls # <<>>
    /\ lastOp.cb # "unsubscribe"
    /\ lastOp.id \notin Active(registry)

\* C6: a re-evaluation that fails with an ExecutionError notifies nobody,
\* keeps the subscription Active with its cached Result, and the sweep goes
\* on: every subscription of the snapshot is evaluated, and notified on
\* change, in the same tick.
C6_ExecutionErrorIsolated ==
    /\ [][EvaluateStep /\ lastOp'.error = "ExecutionError" =>
            /\ HeadNotInvoked
            /\ registry' = registry
            /\ sweepTodo' = Tail(sweepTodo)]_vars
    /\ [][EvaluateStep /\ failed # {} /\ lastOp'.error = "none" /\ HeadDiffers =>
            HeadInvoked]_vars
    /\ [](sweeping /\ sweepTodo = <<>> => evaluated = sweepStart)
    /\ [](failed \subseteq evaluated)

\* C6 witness: after a failed re-evaluation the sweep has notified another
\* subscription, and the failed one is still Active.
C6_Witness ==
    /\ sweeping
    /\ lastOp.op = "evaluate"
    /\ lastOp.calls # <<>>
    /\ lastOp.id \notin failed
    /\ \E id \in failed : id \in Active(registry)

\* C7: the world does not change between the re-evaluations of one sweep;
\* a mutation requested by a callback is queued, and the queue is applied
\* when a later tick starts.
C7_SnapshotPerTick ==
    /\ [][sweeping /\ sweeping' => world' = world]_vars
    /\ [][EvaluateStep /\ lastOp'.cb = "mutate" =>
            /\ world' = world
            /\ Len(pending') = Len(pending) + 1]_vars
    /\ [][~sweeping /\ sweeping' =>
            /\ world' = ApplyAll(world, pending)
            /\ pending' = <<>>]_vars

\* C7 witness: a callback has queued a mutation that changes the world
\* while another subscription of the sweep is still to be evaluated.
C7_Witness ==
    /\ sweeping
    /\ sweepTodo # <<>>
    /\ pending # <<>>
    /\ ApplyAll(world, pending) # world

(***************************************************************************)
(* Properties of useEntityQuery on the registry (SpecHook).                *)
(***************************************************************************)
SubscribeErrors == {"ValidationError", "ReferenceError"}

HookSubscriptions == {id \in Active(registry) : registry.subs[id].owner = "hook"}

\* A step in which the subscription effect of the hook runs.
EffectStep == hook.phase \in {"unmounted", "effect"} /\ vars' # vars

\* C4: a subscribe call that fails with a ValidationError or a
\* ReferenceError leaves the registry as it was and does not invoke the
\* callback; the hook holds no subscription id after it, and while it holds
\* none it has no Active subscription, so that no tick notifies it.
C4_FailedSubscribeRegistersNothing ==
    /\ [][EffectStep /\ lastOp'.error \in SubscribeErrors /\ ~hook'.manual =>
            /\ registry' = registry
            /\ issued' = issued
            /\ lastOp'.calls = <<>>
            /\ hook'.data = (IF hook.phase = "unmounted" THEN <<>> ELSE hook.data)
            /\ hook'.subscriptionRef = <<>>]_vars
    /\ [](hook.subscriptionRef = <<>> => HookSubscriptions = {})
    /\ [](lastOp.op = "evaluate" /\ lastOp.calls # <<>> =>
            hook.subscriptionRef = <<lastOp.id>>)

\* C4 witness: after a subscription that succeeded, the deps changed and
\* the subscribe call of the new effect has failed.
C4_Witness ==
    /\ lastOp.op = "effect"
    /\ lastOp.error \in SubscribeErrors
    /\ ~hook.manual
    /\ issued # <<>>

\* C8: when a successful subscribe has returned, the callback has been
\* invoked exactly once, with the Result of the query on the current world,
\* and that Result is the cached Result of the returned id; the hook then
\* shows it with loading = false.  A failed subscribe leaves loading = false
\* as well.
C8_InitialDelivery ==
    /\ (lastOp.op = "effect" /\ lastOp.error = "none" /\ ~hook.manual) =>
          /\ Len(lastOp.calls) = 1
          /\ lastOp.calls[1] = Execute(world, Stringify(hook.query))
          /\ hook.subscriptionRef = <<lastOp.id>>
          /\ lastOp.id \in Active(registry)
          /\ registry.subs[lastOp.id].cache = lastOp.calls[1]
          /\ hook.data = <<lastOp.calls[1]>>
          /\ hook.loading = FALSE
    /\ (lastOp.op = "effect" /\ ~hook.manual) => hook.loading = FALSE

\* C8 witness: a subscribe of the hook has returned with a non-empty
\* initial Result.
C8_Witness ==
    /\ lastOp.op = "effect"
    /\ lastOp.error = "none"
    /\ ~hook.manual
    /\ hook.data # <<>>
    /\ hook.data[1].total_count > 0

(***************************************************************************)
(* Properties of the executor (SpecExec).                                  *)
(***************************************************************************)
Min(a, b) == IF a < b THEN a ELSE b
Max(a, b) == IF a < b THEN b ELSE a

\* The slice [k, k + n) of a sequence, counting from 0.
Slice(s, k, n) == [i \in 1..Max(0, Min(n, Len(s) - k)) |-> s[k + i]]

\* C9: the rows of a query paged with offset k and limit n are the slice
\* [k, k + n) of the rows of the same query without paging, total_count is
\* the same in both, and an offset at or beyond total_count yields no row.
C9_PaginationLaw ==
    q.stage = "paged" =>
        /\ q.res.error = q.full.error
        /\ q.res.total_count = q.full.total_count
        /\ q.res.rows = Slice(q.full.rows, q.k, q.n)
        /\ Len(q.res.rows) <= Min(q.n, q.res.total_count)
        /\ q.k >= q.full.total_count => q.res.rows = <<>>

\* C9 witness: a page that starts after the first row and is not empty.
C9_Witness ==
    /\ q.stage = "paged"
    /\ q.k > 0
    /\ q.res.rows # <<>>

Overlaps(b) == Range(b.with_components) \cap Range(b.without_components) # {}

\* The builder names only fields and components of the schema and has no
\* negative limit or offset.
KnownNames(b) ==
    /\ b.limit.v >= 0 /\ b.offset.v >= 0
    /\ Range(b.select) \subseteq Fields
    /\ \A i \in DOMAIN b.filters : b.filters[i].field \in Fields
    /\ \A i \in DOMAIN b.order_by : b.order_by[i].field \in Fields
    /\ Range(b.with_components) \cup Range(b.without_components) \subseteq Components

EmptyResult(r) == r.error = "none" /\ r.total_count = 0 /\ r.rows = <<>>

IsNullEquality(f) == f.op = "==" /\ f.value = Null

\* C11: filter evaluation is total and fails closed: every evaluation
\* yields a boolean and the query raises no error, also when the types of
\* the field and the literal differ; on an entity that lacks the field the
\* filter passes exactly for the test == null, so that such an entity is a
\* row of the query exactly for that test.
C11_FilterTotalFailsClosed ==
    q.stage = "filtered" =>
        /\ q.res.error = "none"
        /\ \A e \in Entities :
              /\ q.passes[e] \in BOOLEAN
              /\ q.f.field \notin DOMAIN world[e].fields =>
                    /\ q.passes[e] = IsNullEquality(q.f)
                    /\ world[e].alive =>
                          ((\E i \in DOMAIN q.res.rows : q.res.rows[i].id = e)
                              <=> IsNullEquality(q.f))
              /\ (q.f.field \in DOMAIN world[e].fields
                    /\ world[e].fields[q.f.field].t # q.f.value.t) => ~q.passes[e]

\* C11 witness: != null was evaluated on a live entity that lacks the
\* field, in a world where another entity has it.
C11_Witness ==
    /\ q.stage = "filtered"
    /\ q.f.op = "!=" /\ q.f.value = Null
    /\ \E e \in Entities : world[e].alive /\ q.f.field \notin DOMAIN world[e].fields
    /\ \E e \in Entities : q.f.field \in DOMAIN world[e].fields

(***************************************************************************)
(* Properties of EntityQueryBuilder (SpecBuilder).                         *)
(***************************************************************************)
\* The descriptor build() returned, read now.
Built == Deref(q.heap, q.built[1])

\* C12: a descriptor returned by build() keeps, through every later call on
\* the builder, the value every one of its fields had when build() returned.
C12_BuiltDescriptorUnchanged ==
    (q.stage = "builder" /\ q.built # <<>>) => Built = q.snapshot[1]

\* The last call was limit, offset or page with a negative n or pageIndex.
NegativePaging ==
    /\ q.last.op \in {"limit", "offset", "page"}
    /\ q.last.args[1] < 0

\* C13: limit(n) and offset(n) with a negative n, and page with a negative
\* pageIndex, are rejected with a ValidationError; the descriptor of the
\* builder never holds a negative limit or offset and the text handed to
\* the engine never carries one.
C13_NegativeRejected ==
    q.stage = "builder" =>
        /\ NegativePaging => q.last.error = "ValidationError"
        /\ This.limit.v >= 0 /\ This.offset.v >= 0
        /\ q.json # <<>> =>
              /\ q.json[1].limit.v >= 0
              /\ "offset" \in DOMAIN q.json[1] => q.json[1].offset.v >= 0

WireFields == {"select", "with_components", "without_components", "filters",
               "order_by", "limit", "offset"}

\* C14: the text toJSON returns has exactly the fields select,
\* with_components, without_components, filters, order_by, limit and
\* offset; on a builder whose limit and offset were never set, limit is
\* null and offset is 0.
C14_WireFormat ==
    (q.stage = "builder" /\ q.json # <<>>) =>
        /\ DOMAIN q.json[1] = WireFields
        /\ q.never => q.json[1].limit = Null /\ q.json[1].offset = Num(0)

\* C15: page(pageIndex, perPage) with non-negative arguments leaves
\* offset = pageIndex * perPage and limit = perPage, whatever limit and
\* offset were before; after any sequence of calls with non-negative
\* arguments limit and offset are the ones the last of limit, offset and
\* page asked for.
C15_PageSetsOffsetAndLimit ==
    q.stage = "builder" =>
        /\ (q.last.op = "page" /\ q.last.args[1] >= 0 /\ q.last.args[2] >= 0) =>
              /\ This.offset = Num(q.last.args[1] * q.last.args[2])
              /\ This.limit = Num(q.last.args[2])
        /\ (q.expected.limit.v >= 0 /\ q.expected.offset.v >= 0) =>
              /\ This.limit = q.expected.limit
              /\ This.offset = q.expected.offset

\* C15 witness: page(1, 2) was called on a builder that held another limit
\* and another offset.
C15_Witness ==
    /\ q.stage = "builder"
    /\ q.last.op = "page" /\ q.last.args = <<1, 2>>
    /\ q.before.limit = Num(MaxPage)
    /\ q.before.offset = Num(1)
    /\ This.offset = Num(2) /\ This.limit = Num(2)

\* The query built from the builder value b has the same Result as the one
\* built from c, over every world.
SameQuery(b, c) ==
    \A w \in Worlds : executeQuery(initialized, w, b) = executeQuery(initialized, w, c)

\* C16: the required components are the union of all names passed to with
\* so far and the forbidden ones the union of all names passed to without;
\* a call that passes only names already present changes neither that set
\* nor the Result of the query built from the builder.
C16_WithWithoutCumulative ==
    q.stage = "builder" =>
        /\ Range(This.with_components) = q.required
        /\ Range(This.without_components) = q.forbidden
        /\ (q.last.op = "with"
              /\ Range(q.last.args) \subseteq Range(q.before.with_components)) =>
                 /\ Range(This.with_components) = Range(q.before.with_components)
                 /\ SameQuery(This, q.before)
        /\ (q.last.op = "without"
              /\ Range(q.last.args) \subseteq Range(q.before.without_components)) =>
                 /\ Range(This.without_components) = Range(q.before.without_components)
                 /\ SameQuery(This, q.before)

\* C16 witness: with was called with a name that was passed before, on a
\* builder that requires two components.
C16_Witness ==
    /\ q.stage = "builder"
    /\ q.last.op = "with"
    /\ q.last.args = <<"Enemy">>
    /\ This.with_components = <<"Transform", "Enemy", "Enemy">>
    /\ q.required = {"Transform", "Enemy"}

\* C17: the select list is exactly the arguments of the most recent select
\* call, the empty list when select was never called or was last called
\* without arguments.
C17_SelectReplaces ==
    q.stage = "builder" => This.select = q.selected

\* C17 witness: select was called without arguments on a builder that had
\* a select list.
C17_Witness ==
    /\ q.stage = "builder"
    /\ q.last.op = "select" /\ q.last.args = <<>>
    /\ q.before.select = <<"name", "x">>
    /\ This.select = <<>>

\* C18: the filters list is exactly the sequence of the arguments of the
\* where calls, in call order.
C18_WhereAppends ==
    q.stage = "builder" => This.filters = q.wheres

\* C18 witness: where was called three times, the last two times with the
\* same filter.
C18_Witness ==
    /\ q.stage = "builder"
    /\ Len(This.filters) = 3
    /\ This.filters[1] # This.filters[2]
    /\ This.filters[2] = This.filters[3]

\* C19: order_by is null until orderBy is called and afterwards holds the
\* field and direction of the most recent orderBy call, direction asc when
\* that call passed none.
C19_OrderByReplaces ==
    q.stage = "builder" =>
        IF q.ordered = <<>> THEN This.order_by = <<>>
        ELSE /\ Len(This.order_by) = 1
             /\ This.order_by[1].field = q.ordered[1].field
             /\ This.order_by[1].direction =
                   (IF q.ordered[1].direction = "undefined" THEN "asc"
                    ELSE q.ordered[1].direction)

\* C19 witness: orderBy was called without a direction on a builder that
\* was ordered by another field.
C19_Witness ==
    /\ q.stage = "builder"
    /\ q.last.op = "orderBy"
    /\ q.last.args[1] = [field |-> "x", direction |-> "undefined"]
    /\ q.before.order_by = OrderBy("name", "asc")
    /\ This.order_by = OrderBy("x", "asc")

\* The fields of this.descriptor the last call changed.
Changed == {k \in DOMAIN This : This[k] # q.before[k]}

\* The part of the descriptor that belongs to a method.
OwnPart(op) ==
    CASE op = "select" -> {"select"}
      [] op = "with" -> {"with_components"}
      [] op = "without" -> {"without_components"}
      [] op = "where" -> {"filters"}
      [] op = "orderBy" -> {"order_by"}
      [] op = "limit" -> {"limit"}
      [] op = "offset" -> {"offset"}
      [] op = "page" -> {"limit", "offset"}

FluentMethods == {"select", "with", "without", "where", "orderBy", "limit", "offset",
                  "page"}

\* C20: each of select, with, without, where, orderBy, limit, offset and
\* page returns the builder it was called on and changes no field of the
\* descriptor but its own; page changes only limit and offset.
C20_MethodsChangeOwnPart ==
    (q.stage = "builder" /\ q.last.op \in FluentMethods) =>
        /\ q.last.ret = "this"
        /\ Changed \subseteq OwnPart(q.last.op)

\* C20 witness: limit was called on a builder that had a select list and
\* an offset, and changed the limit.
C20_Witness ==
    /\ q.stage = "builder"
    /\ q.last.op = "limit"
    /\ q.before.select # <<>>
    /\ q.before.offset = Num(1)
    /\ Changed = {"limit"}


\* C22: a hook that is not manual holds at most one live subscription, the
\* one whose id it keeps; between a cleanup and the next effect, and after
\* unmount, none is live; each cleanup that releases an id releases one that
\* was still active, and succeeds; a manual hook never calls subscribeQuery.
C22_OneLiveSubscription ==
    /\ Cardinality(HookSubscriptions) <= 1
    /\ HookSubscriptions = {hook.subscriptionRef[i] : i \in DOMAIN hook.subscriptionRef}
    /\ hook.phase \in {"unmounted", "effect"} => HookSubscriptions = {}
    /\ (lastOp.op = "cleanup" /\ lastOp.target # 0) => lastOp.wasActive /\ lastOp.ret
    /\ (lastOp.op = "effect" /\ hook.manual) => lastOp.id = 0 /\ lastOp.calls = <<>>

\* The unmount of a hook that subscribed twice, the second time after a
\* deps change, and has released both ids.
C22_Witness ==
    /\ hook.phase = "unmounted"
    /\ ~hook.manual
    /\ Len(issued) = 2
    /\ lastOp.op = "cleanup"
    /\ lastOp.target = issued[2]
    /\ lastOp.ret
    /\ Active(registry) = {}

\* What the factory or the engine throws when the hook runs its query
\* ("none" when nothing is thrown).
Thrown(manual, query) ==
    IF query = QThrows THEN QThrows.throws
    ELSE IF manual THEN executeQuery(initialized, world, query).error
    ELSE subscribeQuery(initialized, registry, world, query, "hook").error

\* C31: when the factory, executeQuery or subscribeQuery throws in the
\* effect or in refetch, the hook ends with that error as its error, loading
\* false and onError called once; when nothing is thrown, the refetch or the
\* initial delivery of the subscription leaves the error null and calls no
\* onError.
C31_ErrorsStayInHook ==
    [][lastOp'.op \in {"effect", "refetch"} =>
          LET thrown == IF lastOp'.op = "refetch" THEN Thrown(TRUE, hook.query)
                        ELSE Thrown(hook'.manual, hook'.query)
          IN  /\ hook'.error = thrown
              /\ thrown # "none" => ~hook'.loading /\ hook'.onError = 1
              /\ thrown = "none" => hook'.onError = 0 /\ hook'.data # <<>>]_vars

\* A refetch whose factory throws, in a hook that holds data of an earlier
\* success.
C31_Witness ==
    /\ lastOp.op = "refetch"
    /\ hook.query = QThrows
    /\ hook.error = QThrows.throws
    /\ hook.onError = 1
    /\ ~hook.loading
    /\ hook.data # <<>>

\* C30: the cleanup of the hook never throws, even when the EngineAPI has
\* been disposed before it runs.
C30_CleanupNeverThrows == lastOp.op = "cleanup" => lastOp.error = "none"

(***************************************************************************)
(* Properties of the EngineAPI wrapper (SpecEngine, SpecLifecycle).        *)
(***************************************************************************)
GuardedMethods == DelegatingMethods \cup {"createEntity", "deleteEntity", "setName"}

\* C21: a method that delegates to the engine, called while the wrapper is
\* not initialized (before initialize() completed, or after dispose()),
\* throws 'Engine not initialized. Call initialize() first.', does not call
\* the engine and leaves the entity cache as it was; dispose() and
\* isInitialized never throw.
C21_NotInitializedGuard ==
    q.stage = "engine" =>
        /\ (q.last.op \in GuardedMethods /\ ~q.last.ready) =>
               /\ q.last.error = NotInitialized
               /\ ~q.last.called
               /\ getAllEntityIds(q.api) = q.last.before
        /\ q.last.op \in {"dispose", "isInitialized"} => q.last.error = "none"

\* A method called after dispose() of an engine that had been initialized.
C21_Witness ==
    /\ q.stage = "engine"
    /\ q.last.op = "tick"
    /\ ~q.last.ready
    /\ q.last.error = NotInitialized
    /\ \E t \in 1..Len(q.tasks) : q.tasks[t] = "done"

\* C25: between two dispose() calls at most one engine is created, and an
\* engine the wrapper no longer holds has been freed.
C25_OneEnginePerDispose ==
    q.stage = "engine" =>
        /\ q.sinceDispose <= 1
        /\ \A e \in 1..Len(q.wasm) : q.api.engine # <<e>> => q.wasm[e].freed >= 1

\* C27: dispose() frees the engine held exactly once and leaves no engine,
\* isInitialized false and an empty cache; a dispose() that finds no engine
\* calls nothing; isInitialized is true exactly when an engine is held.
C27_DisposeFreesOnce ==
    q.stage = "engine" =>
        /\ isInitialized(q.api) <=> q.api.engine # <<>>
        /\ \A e \in 1..Len(q.wasm) :
              q.wasm[e].freed = IF q.api.engine = <<e>> THEN 0 ELSE 1
        /\ q.last.op = "dispose" =>
               /\ q.api.engine = <<>>
               /\ ~isInitialized(q.api)
               /\ getAllEntityIds(q.api) = {}
               /\ q.last.called <=> q.last.ready

\* A dispose() that finds no engine, after an earlier one freed the engine
C27_Witness ==
    /\ q.stage = "engine"
    /\ q.last.op = "dispose"
    /\ ~q.last.ready
    /\ \E e \in 1..Len(q.wasm) : q.wasm[e].freed = 1
    /\ q.api = NewEngineAPI

\* C29: while an engine is held, getAllEntityIds() is the set of ids that
\* createEntity returned and no deleteEntity has since deleted.
C29_CacheIsLiveEntities ==
    (q.stage = "engine" /\ isInitialized(q.api)) =>
        getAllEntityIds(q.api) = q.wasm[q.api.engine[1]].alive

(***************************************************************************)
(* Properties of App and its engine (SpecApp).                             *)
(***************************************************************************)
\* C26: once App has unmounted and no initialize() is pending, every engine
\* created has been freed, the EngineAPI is not initialized and no render
\* loop is running on it.
C26_FreedAfterUnmount ==
    (q.stage = "app" /\ ~q.mounted /\ q.phase \notin {"import", "create"}) =>
        /\ \A e \in 1..Len(q.wasm) : q.wasm[e].freed >= 1
        /\ ~isInitialized(q.api)
        /\ q.last.op # "start"

\* C28: no frame ticks an engine that has been freed, and once the cleanup
\* has disposed the engine a frame neither calls tick nor reschedules.
C28_NoTickAfterDispose ==
    q.stage = "app" =>
        /\ q.last.ticked # 0 => q.wasm[q.last.ticked].freed = 0
        /\ (q.disposed /\ q.last.op = "frame") => ~q.last.attempted /\ q.frames = 0

\* The frame that was pending when the cleanup disposed the engine, after
\* frames that ticked it.
C28_Witness ==
    /\ q.stage = "app"
    /\ q.disposed
    /\ q.last.op = "frame"
    /\ q.frameCount > 0
    /\ \E e \in 1..Len(q.wasm) : q.wasm[e].freed = 1

(***************************************************************************)
(* Properties of EntityId (SpecEntityId).                                  *)
(***************************************************************************)
\* C23: for an index of 20 bits and a generation of 12 bits the packed id
\* is not negative, and its index and generation are the ones packed.
C23_PackRoundTrips ==
    (q.stage = "id" /\ q.step = "unpacked") =>
        /\ q.id >= 0
        /\ q.outIndex = q.index
        /\ q.outGeneration = q.generation

(***************************************************************************)
(* Properties of the viewport controls (SpecViewport).                     *)
(***************************************************************************)
\* C24: a mouseup calls selectEntity or deselectAll only if it releases the
\* left button and ends a left-button press that began on the canvas, with
\* no mouseup or mouseleave since, during which the pointer was never more
\* than 3 pixels from where the press began.
C24_PickOnlyOnCleanLeftClick ==
    (q.stage = "viewport" /\ q.last.op = "mouseup" /\ q.last.pick # "none") =>
        /\ q.last.button = 0
        /\ q.last.press.active
        /\ ~q.last.press.moved

(***************************************************************************)
(* Properties of useEntityList (SpecEntityList).                           *)
(***************************************************************************)
\* C32: the descriptor useEntityList builds has the limit given in the
\* options, 0 included, and no limit exactly when the option is absent.
C32_LimitPassedThrough ==
    (q.stage = "list" /\ q.built) =>
        q.descriptor.limit = IF q.options.limit = Undefined THEN Null ELSE q.options.limit

(***************************************************************************)
(* Properties of getEntityData (SpecEntityData).                           *)
(***************************************************************************)
\* C33: getEntityData(id) returns null exactly when getName(id) or
\* getTransform(id) returns null, whatever the name, the empty string
\* included.
C33_DataUnlessMissing ==
    (q.stage = "data" /\ q.called) =>
        (q.ret = Null <=>
            \/ getName(q.name) = Null
            \/ getTransform(q.position, q.rotation, q.scale) = Null)

(***************************************************************************)
(* Properties of useGizmoInteraction (SpecGizmo).                          *)
(***************************************************************************)
\* C34: a drag is open in the engine exactly while isDraggingGizmo is set;
\* a mouseup calls endGizmoDrag once if a drag was open and not at all
\* otherwise, however many listeners it runs; a mousedown with the select
\* tool or with a button other than the left one calls no start.
C34_EndOncePerStart ==
    q.stage = "gizmo" =>
        /\ q.open = IF q.refs.isDraggingGizmo THEN 1 ELSE 0
        /\ q.last.op = "mouseup" => q.last.ends = q.last.wasOpen /\ q.open = 0
        /\ (q.last.op = "mousedown" /\ (q.tool = "select" \/ q.last.button # 0)) =>
               ~q.last.called /\ q.open = q.last.wasOpen

\* The mouseup over the canvas that ends a drag: both listeners ran.
C34_Witness ==
    /\ q.stage = "gizmo"
    /\ q.last.op = "mouseup"
    /\ q.last.wasOpen = 1
    /\ q.last.ends = 1
    /\ q.leftDown = FALSE
    /\ q.tool = "move"

\* C35: an entity is written only by a mousemove during an open drag, with
\* a selection and a tool other than select, and the write is to the first
\* selected entity and to the property of the active tool.
C35_WritesOnlyWhileDragging ==
    (q.stage = "gizmo" /\ q.last.writes # {}) =>
        /\ q.last.op = "mousemove"
        /\ q.last.wasOpen = 1
        /\ q.selection # <<>>
        /\ q.tool # "select"
        /\ \A w \in q.last.writes :
              w.entity = q.selection[1] /\ w.property = ToolProperty(q.tool)

\* A write of the rotate tool with two entities selected.
C35_Witness ==
    /\ q.stage = "gizmo"
    /\ q.tool = "rotate"
    /\ q.selection = <<2, 1>>
    /\ q.last.writes = {[entity |-> 2, property |-> "rotation", value |-> <<>>]}

\* C36: every component of a scale written is at least 0.01.
C36_ScaleAtLeastMin ==
    q.stage = "gizmo" =>
        \A w \in q.last.writes :
            w.property = "scale" => \A i \in 1..3 : AtLeast(w.value[i], Fin(MinScale))

(***************************************************************************)
(* Properties of useGizmo (SpecGizmoSync).                                 *)
(***************************************************************************)
\* C37: whenever the active tool is select, the gizmo is not visible once
\* the effects of useGizmo have run.
C37_HiddenUnderSelect ==
    (q.stage = "sync" /\ q.tool = "select") => ~q.gizmo.visible

=============================================================================
